---- MODULE Spec2Model ----
(***************************************************************************)
(* Model of the smithy-mcp tool-dispatch layer.                            *)
(*                                                                         *)
(* The repository holds three pieces of request-handling code:             *)
(*   - the handler modules tools/search.ts, tools/read.ts, tools/list.ts   *)
(*     (handleSearchTool, handleReadTool, handleListTool);                 *)
(*   - the Lambda dispatcher `handler` of the implementation guide, which  *)
(*     routes a tools/call request to those handlers through a switch;     *)
(*   - the express server of mcp-server/index.ts, which registers three    *)
(*     inline callbacks with an McpServer and serves POST /mcp.            *)
(*                                                                         *)
(* Strings the code takes apart (paths, source URIs, storage keys) are     *)
(* sequences of one-character strings; the namespace 'smithy-docs/' is one *)
(* element NS.  A text the code only concatenates is the sequence of its   *)
(* pieces.  A number is an integer count of halves (Half == 2), so that    *)
(* fractional max_results values exist; a relevance score is an integer    *)
(* count of ten-millionths.                                                *)
(*                                                                         *)
(* Spec serves every request of the bounded input sets, one at a time.     *)
(* SpecRepeat serves a few tool calls of every tool and keeps one earlier  *)
(* request, so that a repeated call can be compared with it.               *)
(* SpecFlight interleaves the steps of several POST /mcp requests that     *)
(* share the one McpServer.  SpecIngest runs the ingestion script (clone,  *)
(* convert, upload) against the bucket while the tools read it, and        *)
(* SpecRun runs the script alone, with the fairness of its event loop.     *)
(***************************************************************************)
EXTENDS Integers, Sequences, FiniteSets, TLC

\* ------------------------------------------------------------------ bounds
MaxPathLen == 3
MaxResults == 2
MaxRequested == 12

\* ------------------------------------------------------------- constants
Half == 2
NS == "smithy-docs/"
DefaultMaxResults == 5
MaxAllowed == 10
SchemaMin == 1
SchemaMax == 10
InternalErrorCode == -32603

Char == {"/", "a"}

RECURSIVE SeqsUpTo(_, _)
SeqsUpTo(S, n) ==
  IF n = 0 THEN {<<>>}
  ELSE LET shorter == SeqsUpTo(S, n - 1)
       IN  shorter \cup {Append(s, c) : s \in {t \in shorter : Len(t) = n - 1}, c \in S}

Paths == SeqsUpTo(Char, MaxPathLen)

\* ------------------------------------------------------------ envelopes
\* MCPToolResponse: { content: Array<{type:'text', text}>, isError?: boolean }
TextBlock(t) == [type |-> "text", text |-> t]
Success(t) == [content |-> <<TextBlock(t)>>, isError |-> "absent"]
Failure(t) == [content |-> <<TextBlock(t)>>, isError |-> "true"]
NoEnvelope == [content |-> <<>>, isError |-> "absent"]

\* a thrown value: an Error (instanceof Error) with a name and a message, or
\* some other value: an object that is no Error, with or without a message
\* property, or null / undefined, which has no properties to read
ThrownValue(isError, nullish, name, message) ==
  [isError |-> isError, nullish |-> nullish, name |-> name, message |-> message]
ServiceError == ThrownValue(TRUE, FALSE, "ServiceException", "service failure")
NoSuchKey == ThrownValue(TRUE, FALSE, "NoSuchKey", "The specified key does not exist.")
TypeErr == ThrownValue(TRUE, FALSE, "TypeError", "Cannot read properties of undefined")
EmptyError == ThrownValue(TRUE, FALSE, "Error", "")
NonError == ThrownValue(FALSE, FALSE, "", "")
PlainObject == ThrownValue(FALSE, FALSE, "", "boom")
Nullish == ThrownValue(FALSE, TRUE, "", "")
NoThrow == ThrownValue(FALSE, FALSE, "none", "")

\* error instanceof Error ? error.message : 'Unknown error'
ErrorMessage(e) == IF e.isError THEN e.message ELSE "Unknown error"

\* the registered tool identifiers, and a name that is none of them
SearchTool == "search_smithy_docs"
ReadTool == "read_smithy_doc"
ListTool == "list_smithy_topics"
BogusTool == "bogus_tool"
ToolNames == {SearchTool, ReadTool, ListTool}

\* what a handler call comes back with: the handler that ran (named by the
\* tool it serves), the envelope it returned or the value it threw, and the
\* collaborator operations it issued
Returned(by, env, ops) ==
  [by |-> by, returned |-> TRUE, env |-> env, thrown |-> NoThrow, ops |-> ops]
Threw(by, e, ops) ==
  [by |-> by, returned |-> FALSE, env |-> NoEnvelope, thrown |-> e, ops |-> ops]

\* one operation issued to a collaborator
RetrieveOp(hasQuery, query, limit) ==
  [op |-> "retrieve", hasQuery |-> hasQuery, query |-> query, limit |-> limit, key |-> <<>>]
GetOp(key) == [op |-> "get", hasQuery |-> FALSE, query |-> "", limit |-> 0, key |-> key]
ListOp(prefix) == [op |-> "list", hasQuery |-> FALSE, query |-> "", limit |-> 0, key |-> <<prefix>>]

\* ------------------------------------------------------------- numbers
Min(a, b) == IF a <= b THEN a ELSE b
Whole(n) == n * Half

\* a score is counted in units of 1/10000000: ScoreUnit units make a thousandth
ScoreUnit == 10000

\* Number.prototype.toFixed(3) of a non-negative score: rounded to
\* thousandths, always three decimals
Digit(n) == ToString(n % 10)
ToFixed3Trimmed(s) ==
  LET t == (s + ScoreUnit \div 2) \div ScoreUnit
  IN  IF t % 10 = 0 THEN <<ToString(t \div 1000), ".", Digit(t \div 100), Digit(t \div 10)>>
      ELSE <<ToString(t \div 1000), ".", Digit(t \div 100), Digit(t \div 10), Digit(t)>>
ToFixed3(s) ==
  LET t == (s + ScoreUnit \div 2) \div ScoreUnit
  IN  <<ToString(t \div 1000), ".", Digit(t \div 100), Digit(t \div 10), Digit(t)>>

\* ------------------------------------------------------------- strings
\* String.prototype.replace(/^\/+/, ''): drop every leading '/'
StripOneSlash(p) == IF p # <<>> /\ Head(p) = "/" THEN Tail(p) ELSE p
RECURSIVE StripLeadingSlashes(_)
StripLeadingSlashes(p) ==
  IF p = <<>> THEN <<>>
  ELSE IF Head(p) = "/" THEN StripLeadingSlashes(Tail(p)) ELSE p

\* index of the last '/' of a string, 0 when it has none
RECURSIVE LastSlash(_)
LastSlash(p) ==
  IF p = <<>> THEN 0
  ELSE IF p[Len(p)] = "/" THEN Len(p) ELSE LastSlash(SubSeq(p, 1, Len(p) - 1))

\* s.split('/').pop(): the part after the last '/'
LastSegment(p) == SubSeq(p, LastSlash(p) + 1, Len(p))

\* s.split('/').pop() || 'unknown'
FileNameNoFallback(uri) == LastSegment(uri)
FileName(uri) == IF LastSegment(uri) = <<>> THEN <<"unknown">> ELSE LastSegment(uri)

\* the first index at which the element x occurs in s, 0 when it does not
RECURSIVE IndexOf(_, _)
IndexOf(s, x) ==
  IF s = <<>> THEN 0
  ELSE IF Head(s) = x THEN 1
  ELSE LET i == IndexOf(Tail(s), x) IN IF i = 0 THEN 0 ELSE i + 1

\* key.replace('smithy-docs/', ''): remove the first occurrence of the prefix
RemovePrefix(key) ==
  LET i == IndexOf(key, NS)
  IN  IF i = 0 THEN key ELSE SubSeq(key, 1, i - 1) \o SubSeq(key, i + 1, Len(key))

\* ------------------------------------------------- retrieval collaborator
\* what the knowledge base can answer to one Retrieve call: retrievalResults
\* (possibly undefined) whose entries may lack text, uri or score, or a failure
Raw(hasText, text, hasUri, uri, hasScore, score) ==
  [hasText |-> hasText, text |-> text, hasUri |-> hasUri, uri |-> uri,
   hasScore |-> hasScore, score |-> score]
RawPool ==
  { Raw(TRUE, "chunk one", TRUE, <<"a", "/", "a">>, TRUE, 8234567),
    Raw(TRUE, "chunk two", TRUE, <<"a", "/">>, TRUE, 9100000),
    Raw(FALSE, "", FALSE, <<>>, FALSE, 0) }
Thrown == {ServiceError, EmptyError, NonError, PlainObject, Nullish}
RetrieveOutcomes ==
  {[kind |-> "ok", hasResults |-> TRUE, raw |-> r, error |-> NoThrow] :
      r \in SeqsUpTo(RawPool, MaxResults)}
  \cup {[kind |-> "ok", hasResults |-> FALSE, raw |-> <<>>, error |-> NoThrow]}
  \cup {[kind |-> "throw", hasResults |-> FALSE, raw |-> <<>>, error |-> e] : e \in Thrown}

\* bedrock-client.ts: one raw result mapped to a SearchResult
ToSearchResult(r) ==
  [content |-> IF r.hasText THEN r.text ELSE "",
   s3Uri |-> IF r.hasUri THEN r.uri ELSE <<>>,
   score |-> IF r.hasScore THEN r.score ELSE 0]

\* bedrock-client.ts searchKnowledgeBase(query, maxResults = 5): one Retrieve
\* call with numberOfResults = maxResults; a failure of the call propagates
SearchKnowledgeBase(hasQuery, query, hasMax, maxResults, out) ==
  LET limit == IF hasMax THEN maxResults ELSE Whole(DefaultMaxResults)
      op == RetrieveOp(hasQuery, query, limit)
  IN  IF out.kind = "throw"
        THEN [ok |-> FALSE, results |-> <<>>, error |-> out.error, op |-> op]
        ELSE [ok |-> TRUE,
              results |-> IF out.hasResults
                            THEN [i \in 1..Len(out.raw) |-> ToSearchResult(out.raw[i])]
                            ELSE <<>>,
              error |-> NoThrow, op |-> op]

\* ${query} of a query that may be undefined
QueryText(hasQuery, query) == IF hasQuery THEN query ELSE "undefined"

\* ------------------------------------------------------- tools/search.ts
NoResultsText ==
  <<"No relevant documentation found for your query. Try rephrasing or using different keywords.">>
SearchErrorPrefix == "Error searching documentation: "

\* the character U+0060, which the lexer does not accept inside a string
Backtick == "[U+0060]"

\* one "## Result" block of the report
ResultBlock(result, ordinal) ==
  <<"## Result ", ToString(ordinal), " (Score: ">> \o ToFixed3(result.score)
    \o <<")\n**Source:** ", Backtick>> \o FileName(result.s3Uri)
    \o <<Backtick, "\n\n", result.content, "\n\n---\n\n">>

RECURSIVE ResultBlocksSorted(_, _)
ResultBlocksSorted(results, n) ==
  IF n = 0 THEN <<>>
  ELSE LET best == CHOOSE i \in 1..n : \A j \in 1..n : results[i].score >= results[j].score
           rest == [j \in 1..(n - 1) |-> IF j < best THEN results[j] ELSE results[j + 1]]
       IN  ResultBlock(results[best], Len(results) - n + 1) \o ResultBlocksSorted(rest, n - 1)
RECURSIVE ResultBlocks(_, _)
ResultBlocks(results, n) ==
  IF n = 0 THEN <<>> ELSE ResultBlocks(results, n - 1) \o ResultBlock(results[n], n)

SearchReport(hasQuery, query, results) ==
  <<"# Search Results for: \"", QueryText(hasQuery, query), "\"\n\nFound ",
    ToString(Len(results)), " relevant section(s):\n\n">>
    \o ResultBlocks(results, Len(results))

\* Math.min(args.max_results || 5, 10)
EffectiveMaxResultsNoClamp(hasMr, mr) ==
  IF hasMr /\ mr # 0 THEN mr ELSE Whole(DefaultMaxResults)
EffectiveMaxResultsFloor(hasMr, mr) ==
  LET m == Min(IF hasMr /\ mr # 0 THEN mr ELSE Whole(DefaultMaxResults), Whole(MaxAllowed))
  IN  IF m < Whole(1) THEN Whole(1) ELSE m
EffectiveMaxResults(hasMr, mr) ==
  Min(IF hasMr /\ mr # 0 THEN mr ELSE Whole(DefaultMaxResults), Whole(MaxAllowed))

\* handleSearchTool(args); args may be undefined when the caller sent none
HandleSearchToolEmptyIsError(args, out) ==
  IF ~args.present
    THEN Returned(SearchTool, Failure(<<SearchErrorPrefix, ErrorMessage(TypeErr)>>), <<>>)
    ELSE LET maxResults == EffectiveMaxResults(args.hasMr, args.mr)
             r == SearchKnowledgeBase(args.hasQuery, args.query, TRUE, maxResults, out)
         IN  IF ~r.ok
               THEN Returned(SearchTool, Failure(<<SearchErrorPrefix, ErrorMessage(r.error)>>), <<r.op>>)
               ELSE IF Len(r.results) = 0
                 THEN Returned(SearchTool, Failure(NoResultsText), <<r.op>>)
                 ELSE Returned(SearchTool, Success(SearchReport(args.hasQuery, args.query, r.results)),
                               <<r.op>>)
HandleSearchTool(args, out) ==
  IF ~args.present
    THEN Returned(SearchTool, Failure(<<SearchErrorPrefix, ErrorMessage(TypeErr)>>), <<>>)
    ELSE LET maxResults == EffectiveMaxResults(args.hasMr, args.mr)
             r == SearchKnowledgeBase(args.hasQuery, args.query, TRUE, maxResults, out)
         IN  IF ~r.ok
               THEN Returned(SearchTool, Failure(<<SearchErrorPrefix, ErrorMessage(r.error)>>), <<r.op>>)
               ELSE IF Len(r.results) = 0
                 THEN Returned(SearchTool, Success(NoResultsText), <<r.op>>)
                 ELSE Returned(SearchTool, Success(SearchReport(args.hasQuery, args.query, r.results)),
                               <<r.op>>)

\* ------------------------------------------------ object-store collaborator
\* a stored object: its key and its body text; Bodiless is an object whose
\* GetObject response carries no Body
Object(rel, content) == [key |-> <<NS>> \o rel, hasBody |-> TRUE, content |-> content]
Bodiless(rel) == [key |-> <<NS>> \o rel, hasBody |-> FALSE, content |-> ""]

\* the bucket contents the model starts from, each listed in key order
StoreChoices ==
  { <<>>,
    << Object(<<"a">>, "# Hello"), Object(<<"a", "/", "a">>, ""), Bodiless(<<"a", "a">>) >>,
    << Object(<<"A">>, "x"), Object(<<"B", "/", "a">>, "y"), Object(<<"B", "/", "c">>, "z"),
       Object(<<"R", "o", "o", "t", "/", "a">>, "# Hello") >>,
    << Object(<<"c", "o", "n", "s", "t", "r", "u", "c", "t", "o", "r", "/", "a">>, "w") >> }

Faults == {NoThrow} \cup Thrown

\* GetObjectCommand and response.Body?.transformToString(): the object's body
\* text (undefined without a Body), NoSuchKey for an absent key, or the fault
\* the service raises
S3Get(objects, key, fault) ==
  IF fault # NoThrow THEN [ok |-> FALSE, hasContent |-> FALSE, content |-> "", error |-> fault]
  ELSE IF \E i \in 1..Len(objects) : objects[i].key = key
    THEN LET o == CHOOSE x \in {objects[i] : i \in 1..Len(objects)} : x.key = key
         IN  [ok |-> TRUE, hasContent |-> o.hasBody, content |-> o.content, error |-> NoThrow]
    ELSE [ok |-> FALSE, hasContent |-> FALSE, content |-> "", error |-> NoSuchKey]

\* ListObjectsV2Command with Prefix 'smithy-docs/': Contents is undefined for
\* an empty listing
S3List(objects, fault) ==
  IF fault # NoThrow THEN [ok |-> FALSE, hasContents |-> FALSE, contents |-> <<>>, error |-> fault]
  ELSE [ok |-> TRUE, hasContents |-> Len(objects) > 0,
        contents |-> [i \in 1..Len(objects) |-> [hasKey |-> TRUE, key |-> objects[i].key]],
        error |-> NoThrow]

\* --------------------------------------------------------- tools/read.ts
ReadErrorPrefix == "Error reading document: "
SearchTip == "\n\nTip: Use search_smithy_docs to find available documents."

\* `smithy-docs/${cleanPath}`
DocumentKey(filePath) == <<NS>> \o StripLeadingSlashes(filePath)

NotFoundPrefix == "Document not found: "
EmptyPrefix == "Document found but content is empty: "

\* handleReadTool(args); the catch block reads error.name, which itself
\* throws a TypeError when the caught value is null or undefined
HandleReadToolCleanHeading(args, objects, fault) ==
  IF ~args.present \/ ~args.hasPath
    THEN Returned(ReadTool, Failure(<<ReadErrorPrefix, ErrorMessage(TypeErr)>>), <<>>)
    ELSE LET key == DocumentKey(args.path)
             got == S3Get(objects, key, fault)
             ops == <<GetOp(key)>>
         IN  IF ~got.ok
               THEN IF got.error.nullish
                      THEN Threw(ReadTool, TypeErr, ops)
                    ELSE IF got.error.name = "NoSuchKey"
                      THEN Returned(ReadTool, Failure(<<NotFoundPrefix>> \o args.path
                                              \o <<SearchTip>>), ops)
                      ELSE Returned(ReadTool, Failure(<<ReadErrorPrefix, ErrorMessage(got.error)>>), ops)
               ELSE IF ~got.hasContent \/ got.content = ""
                 THEN Returned(ReadTool, Failure(<<EmptyPrefix>> \o args.path), ops)
                 ELSE Returned(ReadTool, Success(<<"# ">> \o StripLeadingSlashes(args.path)
                                                 \o <<"\n\n", got.content>>), ops)
HandleReadTool(args, objects, fault) ==
  IF ~args.present \/ ~args.hasPath
    THEN Returned(ReadTool, Failure(<<ReadErrorPrefix, ErrorMessage(TypeErr)>>), <<>>)
    ELSE LET key == DocumentKey(args.path)
             got == S3Get(objects, key, fault)
             ops == <<GetOp(key)>>
         IN  IF ~got.ok
               THEN IF got.error.nullish
                      THEN Threw(ReadTool, TypeErr, ops)
                    ELSE IF got.error.name = "NoSuchKey"
                      THEN Returned(ReadTool, Failure(<<NotFoundPrefix>> \o args.path
                                              \o <<SearchTip>>), ops)
                      ELSE Returned(ReadTool, Failure(<<ReadErrorPrefix, ErrorMessage(got.error)>>), ops)
               ELSE IF ~got.hasContent \/ got.content = ""
                 THEN Returned(ReadTool, Failure(<<EmptyPrefix>> \o args.path), ops)
                 ELSE Returned(ReadTool, Success(<<"# ">> \o args.path \o <<"\n\n", got.content>>), ops)

\* --------------------------------------------------------- tools/list.ts
NoFilesText ==
  <<"No documentation files found. The knowledge base may not be populated yet.">>
ListErrorPrefix == "Error listing topics: "
RootGroup == <<"R", "o", "o", "t">>

\* UTF-16 code unit of a character, the order Array.prototype.sort compares by
CharCode(c) ==
  CASE c = "." -> 46 [] c = ".md" -> 46 [] c = ".rst" -> 46 [] c = "/" -> 47 [] c = "A" -> 65 [] c = "B" -> 66 [] c = "R" -> 82
    [] c = "a" -> 97 [] c = "b" -> 98 [] c = "c" -> 99 [] c = "n" -> 110 [] c = "o" -> 111
    [] c = "r" -> 114 [] c = "s" -> 115 [] c = "t" -> 116 [] c = "u" -> 117
    [] OTHER -> 120

RECURSIVE LexLess(_, _)
LexLess(x, y) ==
  IF y = <<>> THEN FALSE
  ELSE IF x = <<>> THEN TRUE
  ELSE IF Head(x) = Head(y) THEN LexLess(Tail(x), Tail(y))
  ELSE CharCode(Head(x)) < CharCode(Head(y))

\* Object.keys(fileTree).sort(): the distinct group names in code unit order
RECURSIVE SortedNamesDescending(_)
SortedNamesDescending(names) ==
  IF names = {} THEN <<>>
  ELSE LET most == CHOOSE n \in names : \A m \in names \ {n} : LexLess(m, n)
       IN  <<most>> \o SortedNamesDescending(names \ {most})
RECURSIVE SortedNames(_)
SortedNames(names) ==
  IF names = {} THEN <<>>
  ELSE LET least == CHOOSE n \in names : \A m \in names \ {n} : LexLess(n, m)
       IN  <<least>> \o SortedNames(names \ {least})

\* fileTree = {} is a plain object: fileTree[dir] of a name every object
\* inherits ('constructor', 'toString', '__proto__', ...) is not undefined
\* before the first push, so no array is created for it and
\* fileTree[dir].push is not a function
InheritedNames == {<<"c", "o", "n", "s", "t", "r", "u", "c", "t", "o", "r">>}
PushError == ThrownValue(TRUE, FALSE, "TypeError", "fileTree[dir].push is not a function")

\* parts.length === 1 ? 'Root' : parts.slice(0, -1).join('/')
DirOf(relativePath) ==
  IF LastSlash(relativePath) = 0 THEN RootGroup
  ELSE SubSeq(relativePath, 1, LastSlash(relativePath) - 1)

\* the relative paths of the listed files that have a key, in listing order
RECURSIVE RelativePaths(_)
RelativePaths(files) ==
  IF files = <<>> THEN <<>>
  ELSE (IF Head(files).hasKey THEN <<RemovePrefix(Head(files).key)>> ELSE <<>>)
         \o RelativePaths(Tail(files))

\* fileTree[dir]: the paths pushed under dir, in the order they were pushed
RECURSIVE FilesOf(_, _)
FilesOf(dir, paths) ==
  IF paths = <<>> THEN <<>>
  ELSE (IF DirOf(Head(paths)) = dir THEN <<Head(paths)>> ELSE <<>>)
         \o FilesOf(dir, Tail(paths))

RECURSIVE Bullets(_)
Bullets(paths) ==
  IF paths = <<>> THEN <<>>
  ELSE <<"- ", Backtick>> \o Head(paths) \o <<Backtick, "\n">> \o Bullets(Tail(paths))

RECURSIVE GroupSections(_, _)
GroupSections(dirs, paths) ==
  IF dirs = <<>> THEN <<>>
  ELSE <<"## ">> \o Head(dirs) \o <<"\n\n">> \o Bullets(FilesOf(Head(dirs), paths))
         \o <<"\n">> \o GroupSections(Tail(dirs), paths)

ListReportCountsGroups(files) ==
  LET paths == RelativePaths(files)
      dirs == SortedNames({DirOf(paths[i]) : i \in 1..Len(paths)})
  IN  <<"# Smithy Documentation Files\n\nTotal files: ", ToString(Len(dirs)), "\n\n">>
        \o GroupSections(dirs, paths)
ListReport(files) ==
  LET paths == RelativePaths(files)
      dirs == SortedNames({DirOf(paths[i]) : i \in 1..Len(paths)})
  IN  <<"# Smithy Documentation Files\n\nTotal files: ", ToString(Len(files)), "\n\n">>
        \o GroupSections(dirs, paths)

\* handleListTool()
HandleListToolBareError(objects, fault) ==
  LET listed == S3List(objects, fault)
      ops == <<ListOp(NS)>>
      files == IF listed.hasContents THEN listed.contents ELSE <<>>
  IN  IF ~listed.ok
        THEN Returned(ListTool, [content |-> <<>>, isError |-> "true"], ops)
        ELSE IF Len(files) = 0
          THEN Returned(ListTool, Success(NoFilesText), ops)
        ELSE IF \E i \in 1..Len(files) :
                  files[i].hasKey /\ DirOf(RemovePrefix(files[i].key)) \in InheritedNames
          THEN Returned(ListTool, Failure(<<ListErrorPrefix, ErrorMessage(PushError)>>), ops)
          ELSE Returned(ListTool, Success(ListReport(files)), ops)
HandleListTool(objects, fault) ==
  LET listed == S3List(objects, fault)
      ops == <<ListOp(NS)>>
      files == IF listed.hasContents THEN listed.contents ELSE <<>>
  IN  IF ~listed.ok
        THEN Returned(ListTool, Failure(<<ListErrorPrefix, ErrorMessage(listed.error)>>), ops)
        ELSE IF Len(files) = 0
          THEN Returned(ListTool, Success(NoFilesText), ops)
        ELSE IF \E i \in 1..Len(files) :
                  files[i].hasKey /\ DirOf(RemovePrefix(files[i].key)) \in InheritedNames
          THEN Returned(ListTool, Failure(<<ListErrorPrefix, ErrorMessage(PushError)>>), ops)
          ELSE Returned(ListTool, Success(ListReport(files)), ops)

\* ------------------------------------------------------------ tool calls

\* the arguments of a tool call: a JSON object (or none) whose fields may be
\* missing; max_results is counted in halves
Args(present, hasQuery, query, hasMr, mr, hasPath, path) ==
  [present |-> present, hasQuery |-> hasQuery, query |-> query, hasMr |-> hasMr,
   mr |-> mr, hasPath |-> hasPath, path |-> path]
NoArgs == Args(FALSE, FALSE, "", FALSE, 0, FALSE, <<>>)
EmptyArgs == Args(TRUE, FALSE, "", FALSE, 0, FALSE, <<>>)
Query == "How do I define a service?"

\* max_results values a client can send: -1, -0.5, 0, 0.5, ... up to MaxRequested
RequestedValues == (-Whole(1))..Whole(MaxRequested)

SearchArgs ==
  {NoArgs, EmptyArgs, Args(TRUE, TRUE, Query, FALSE, 0, FALSE, <<>>)}
  \cup {Args(TRUE, TRUE, Query, TRUE, m, FALSE, <<>>) : m \in RequestedValues}
ReadArgs ==
  {NoArgs, EmptyArgs} \cup {Args(TRUE, FALSE, "", FALSE, 0, TRUE, p) : p \in Paths}

ToolCall(name, args) == [isToolCall |-> TRUE, name |-> name, args |-> args]
NoCall == [isToolCall |-> FALSE, name |-> "", args |-> NoArgs]
ToolCalls ==
  {ToolCall(SearchTool, a) : a \in SearchArgs}
  \cup {ToolCall(ReadTool, a) : a \in ReadArgs}
  \cup {ToolCall(ListTool, a) : a \in {NoArgs, EmptyArgs}}
  \cup {ToolCall(BogusTool, EmptyArgs)}

\* what the collaborators answer during one call
NoOutcome == [kind |-> "ok", hasResults |-> FALSE, raw |-> <<>>, error |-> NoThrow]
Env(out, fault) == [out |-> out, fault |-> fault]
EnvsFor(c) ==
  IF c.name = SearchTool THEN {Env(o, NoThrow) : o \in RetrieveOutcomes}
  ELSE IF c.name \in {ReadTool, ListTool} THEN {Env(NoOutcome, f) : f \in Faults}
  ELSE {Env(NoOutcome, NoThrow)}

\* ------------------------------------------------------------ responses
\* an HTTP-level response: its status, the kind of body it carries, and the
\* body's tool envelope or error text
Response(status, shape, env, error, code) ==
  [status |-> status, shape |-> shape, env |-> env, error |-> error, code |-> code]
NoResponse == Response(0, "none", NoEnvelope, <<>>, 0)
EnvelopeResponse(env) == Response(200, "envelope", env, <<>>, 0)
ErrorBody(status, text) == Response(status, "errorBody", NoEnvelope, text, 0)
InfoResponse(shape) == Response(200, shape, NoEnvelope, <<>>, 0)
RpcError(status, code, message) == Response(status, "rpcError", NoEnvelope, <<message>>, code)

\* the result of running a dispatcher on one request
Dispatch(resp, escaped, invoked, ret, cause) ==
  [resp |-> resp, escaped |-> escaped, invoked |-> invoked, ret |-> ret, cause |-> cause]
NoReturn == Threw("", NoThrow, <<>>)

\* a request-level failure the inputs of a call lead to, "none" without one:
\* the arguments object or read's file_path is missing, or the collaborator
\* operation of the tool throws
CauseOf(c, objects, e) ==
  IF c.name \notin ToolNames THEN "unknownTool"
  ELSE IF c.name # ListTool /\ (~c.args.present \/ (c.name = ReadTool /\ ~c.args.hasPath))
    THEN "arguments"
  ELSE IF \/ c.name = SearchTool /\ e.out.kind = "throw"
          \/ c.name = ReadTool /\ ~S3Get(objects, DocumentKey(c.args.path), e.fault).ok
          \/ c.name = ListTool /\ e.fault # NoThrow
    THEN "collaborator"
  ELSE "none"

\* ---------------------------------------- guide: Lambda dispatcher handler
\* the event body: absent, not JSON, or a JSON request with a method,
\* optional params and, for tools/call, a tool call
Event(body, method, hasParams, call) ==
  [body |-> body, method |-> method, hasParams |-> hasParams, call |-> call]
LambdaEvents ==
  {Event("absent", "", FALSE, NoCall), Event("unparsable", "", FALSE, NoCall)}
  \cup {Event("json", m, FALSE, NoCall) : m \in {"tools/list", "initialize", "ping", "tools/call"}}
  \cup {Event("json", "tools/call", TRUE, c) : c \in ToolCalls}

\* default: return { statusCode: 400, body: { error: 'Unknown tool: ' + name } }
UnknownToolAnonymous(name) == ErrorBody(400, <<"Unknown tool">>)
UnknownTool(name) == ErrorBody(400, <<"Unknown tool: ", name>>)

\* switch (name) { case ...: result = await handleXTool(args) }
RunHandlerMisrouted(c, objects, e) ==
  CASE c.name = SearchTool -> HandleSearchTool(c.args, e.out)
    [] c.name = ReadTool -> HandleListTool(objects, e.fault)
    [] c.name = ListTool -> HandleListTool(objects, e.fault)
    [] OTHER -> NoReturn
RunHandler(c, objects, e) ==
  CASE c.name = SearchTool -> HandleSearchTool(c.args, e.out)
    [] c.name = ReadTool -> HandleReadTool(c.args, objects, e.fault)
    [] c.name = ListTool -> HandleListTool(objects, e.fault)
    [] OTHER -> NoReturn

\* export const handler = async (event) => { ... }
LambdaHandler(event, objects, e) ==
  IF event.body = "unparsable"
    THEN Dispatch(NoResponse, TRUE, <<>>, NoReturn, "parse")
  ELSE IF event.body = "absent"
    THEN Dispatch(ErrorBody(400, <<"Invalid request">>), FALSE, <<>>, NoReturn, "none")
  ELSE IF event.method = "tools/list"
    THEN Dispatch(InfoResponse("toolsList"), FALSE, <<>>, NoReturn, "none")
  ELSE IF event.method = "tools/call"
    THEN IF ~event.hasParams
           THEN Dispatch(NoResponse, TRUE, <<>>, NoReturn, "arguments")
           ELSE IF event.call.name \in ToolNames
             THEN LET r == RunHandler(event.call, objects, e)
                  IN  IF r.returned
                        THEN Dispatch(EnvelopeResponse(r.env), FALSE, <<r.by>>, r,
                                      CauseOf(event.call, objects, e))
                        ELSE Dispatch(NoResponse, TRUE, <<r.by>>, r,
                                      CauseOf(event.call, objects, e))
             ELSE Dispatch(UnknownTool(event.call.name), FALSE, <<>>, NoReturn,
                           "unknownTool")
  ELSE IF event.method = "initialize"
    THEN Dispatch(InfoResponse("initialize"), FALSE, <<>>, NoReturn, "none")
  ELSE Dispatch(ErrorBody(400, <<"Invalid request">>), FALSE, <<>>, NoReturn, "none")

\* ------------------------------------------- mcp-server/index.ts: schemas
\* { query: z.string(), max_results: z.number().min(1).max(10).optional().default(5) }
SearchSchemaAccepts(args) ==
  /\ args.present
  /\ args.hasQuery
  /\ args.hasMr => (Whole(SchemaMin) <= args.mr /\ args.mr <= Whole(SchemaMax))
ParsedMaxResults(args) == IF args.hasMr THEN args.mr ELSE Whole(DefaultMaxResults)

\* { file_path: z.string() }
ReadSchemaAccepts(args) == args.present /\ args.hasPath

SchemaAccepts(c) ==
  CASE c.name = SearchTool -> SearchSchemaAccepts(c.args)
    [] c.name = ReadTool -> ReadSchemaAccepts(c.args)
    [] OTHER -> TRUE

\* ----------------------------------------- mcp-server/index.ts: callbacks
LiveResultBlock(result, ordinal) ==
  <<"## Result ", ToString(ordinal), " (">> \o ToFixed3(result.score)
    \o <<")\n**Source:** ">> \o FileName(result.s3Uri)
    \o <<"\n\n", result.content, "\n\n---\n\n">>

RECURSIVE LiveResultBlocks(_, _)
LiveResultBlocks(results, n) ==
  IF n = 0 THEN <<>>
  ELSE LiveResultBlocks(results, n - 1) \o LiveResultBlock(results[n], n)

\* async ({ query, max_results }) => { ... }
SearchCallback(args, out) ==
  LET r == SearchKnowledgeBase(TRUE, args.query, TRUE, ParsedMaxResults(args), out)
  IN  IF ~r.ok THEN Threw(SearchTool, r.error, <<r.op>>)
      ELSE IF Len(r.results) = 0
        THEN Returned(SearchTool, Success(<<"No relevant documentation found">>), <<r.op>>)
        ELSE Returned(SearchTool, Success(<<"# Search Results: \"", args.query, "\"\n\n">>
                                \o LiveResultBlocks(r.results, Len(r.results))), <<r.op>>)

\* async ({ file_path }) => { ... }
ReadCallback(args, objects, fault) ==
  LET key == <<NS>> \o StripLeadingSlashes(args.path)
      got == S3Get(objects, key, fault)
      content == IF got.hasContent THEN got.content ELSE "undefined"
  IN  IF ~got.ok THEN Threw(ReadTool, got.error, <<GetOp(key)>>)
      ELSE Returned(ReadTool, Success(<<"# ">> \o args.path \o <<"\n\n", content>>),
                    <<GetOp(key)>>)

\* files.forEach(f => result += ...)
RECURSIVE LiveBullets(_)
LiveBullets(paths) ==
  IF paths = <<>> THEN <<>>
  ELSE <<"- ">> \o Head(paths) \o <<"\n">> \o LiveBullets(Tail(paths))

\* .filter(Boolean): drop the undefined and the empty paths
RECURSIVE NonEmpty(_)
NonEmpty(paths) ==
  IF paths = <<>> THEN <<>>
  ELSE (IF Head(paths) = <<>> THEN <<>> ELSE <<Head(paths)>>) \o NonEmpty(Tail(paths))

\* async () => { ... }
ListCallbackNextPage(objects, fault) ==
  LET listed == S3List(objects, fault)
      files == NonEmpty(RelativePaths(IF listed.hasContents THEN listed.contents ELSE <<>>))
  IN  IF ~listed.ok THEN Threw(ListTool, listed.error, <<ListOp(NS)>>)
      ELSE Returned(ListTool, Success(<<"# Smithy Documentation\n\nTotal: ", ToString(Len(files)),
                              " files\n\n">> \o LiveBullets(files)), <<ListOp(NS), ListOp(NS)>>)
ListCallback(objects, fault) ==
  LET listed == S3List(objects, fault)
      files == NonEmpty(RelativePaths(IF listed.hasContents THEN listed.contents ELSE <<>>))
  IN  IF ~listed.ok THEN Threw(ListTool, listed.error, <<ListOp(NS)>>)
      ELSE Returned(ListTool, Success(<<"# Smithy Documentation\n\nTotal: ", ToString(Len(files)),
                              " files\n\n">> \o LiveBullets(files)), <<ListOp(NS)>>)

RunCallback(c, objects, e) ==
  CASE c.name = SearchTool -> SearchCallback(c.args, e.out)
    [] c.name = ReadTool -> ReadCallback(c.args, objects, e.fault)
    [] c.name = ListTool -> ListCallback(objects, e.fault)
    [] OTHER -> NoReturn

\* ------------------------------ mcp-server/index.ts: McpServer and express
\* how the McpServer reports a call it does not run (unknown tool, arguments
\* the schema rejects): as a tool result flagged isError or as a JSON-RPC
\* error, depending on the library version the build resolves
SdkForms == {"toolError", "rpcError"}
SdkRefusal(form, text) ==
  IF form = "toolError" THEN EnvelopeResponse(Failure(text))
  ELSE Response(200, "sdkRpcError", NoEnvelope, text, 0)

\* error instanceof Error ? error.message : String(error)
SdkErrorText(e) ==
  IF e.isError THEN e.message ELSE IF e.nullish THEN "null" ELSE "[object Object]"

\* server.registerTool(name, { inputSchema }, callback) x 3, as run for one
\* tools/call request by transport.handleRequest: the McpServer looks the tool
\* up by name, parses the arguments with the registered inputSchema, runs the
\* callback only when they parse, and turns a rejection of the callback into
\* a tool result flagged isError whose text is the error's message
McpServerCall(c, objects, e, form) ==
  IF c.name \notin ToolNames
    THEN Dispatch(SdkRefusal(form, <<"Tool ", c.name, " not found">>), FALSE, <<>>,
                  NoReturn, "unknownTool")
  ELSE IF ~SchemaAccepts(c)
    THEN Dispatch(SdkRefusal(form, <<"Invalid arguments for tool ", c.name>>), FALSE, <<>>,
                  NoReturn, "arguments")
  ELSE LET r == RunCallback(c, objects, e)
       IN  Dispatch(IF r.returned THEN EnvelopeResponse(r.env)
                    ELSE EnvelopeResponse(Failure(<<SdkErrorText(r.thrown)>>)),
                    FALSE, <<r.by>>, r, CauseOf(c, objects, e))

\* app.use(express.json()); app.post('/mcp', async (req, res) => { try ... catch ... })
HttpPostMcpNoCatch(body, c, objects, e, form, transport) ==
  IF body = "unparsable"
    THEN Dispatch(Response(400, "frameworkError", NoEnvelope, <<>>, 0), FALSE, <<>>,
                  NoReturn, "parse")
  ELSE IF transport = "throws"
    THEN Dispatch(NoResponse, TRUE, <<>>, NoReturn, "transport")
  ELSE McpServerCall(c, objects, e, form)
HttpPostMcp(body, c, objects, e, form, transport) ==
  IF body = "unparsable"
    THEN Dispatch(Response(400, "frameworkError", NoEnvelope, <<>>, 0), FALSE, <<>>,
                  NoReturn, "parse")
  ELSE IF transport = "throws"
    THEN Dispatch(RpcError(500, InternalErrorCode, "Internal server error"), FALSE, <<>>,
                  NoReturn, "transport")
  ELSE McpServerCall(c, objects, e, form)

\* ---------------------------------------------------------------- state
VARIABLES
  proc,        \* the express process: "starting", "listening" or "exited"
  objects,     \* the bucket contents under the namespace, in key order
  entry,       \* the entry point of the last request: "none", "lambda", "http"
  call,        \* the tool call the last request carried, NoCall if none
  invoked,     \* the handlers run for the last request, in order
  ret,         \* what the last handler returned or threw, and the operations it issued
  resp,        \* the response to the last request
  escaped,     \* an exception left the dispatcher during the last request
  cause,       \* the failure the last request ran into, "none" without one
  world,       \* what the collaborators answered during the last request
  prevFailed,  \* the entry point of the request before this one if it ended
               \* in an error, "no" otherwise
  earlier,     \* an earlier request kept for comparison with a later one:
               \* its entry point, call, collaborator answers and outcome
  sdk,         \* how the installed McpServer treats connect() while connected:
               \* "unknown" until the first connect shows it
  connected,   \* the transport the shared McpServer holds (the number of the
               \* request that made it), 0 when it holds none
  flight,      \* the POST /mcp requests in flight, by number: the position of
               \* the route handler, the call, the transport and the response
  ipc,         \* the position of the ingestion script's main()
  tempDir,     \* the directory mkdtemp made: "none", "present" or "removed"
  rstFiles,    \* the .rst files glob found, as paths relative to the docs
  cursor,      \* how many of them the conversion loop has gone through
  pandoc,      \* whether pandoc converted each of them, in order
  markdownFiles, \* the files converted so far, in order
  puts,        \* the state of the put of each converted file
  upload,      \* the promise uploadToS3 returned and what it rejected with
  failure,     \* the first failure of the ingestion run
  thrown,      \* the failure main() caught
  printed,     \* the completion message was printed
  exitCode     \* the exit code of the ingestion process, "running" before

requestVars ==
  <<proc, objects, entry, call, invoked, ret, resp, escaped, cause, world, prevFailed, earlier>>
flightVars == <<sdk, connected, flight>>
ingestVars ==
  <<ipc, tempDir, rstFiles, cursor, pandoc, markdownFiles, puts, upload, failure, thrown,
    printed, exitCode>>
vars == <<requestVars, flightVars, ingestVars>>

\* no earlier request is kept
NoEarlier ==
  [point |-> "none", call |-> NoCall, world |-> Env(NoOutcome, NoThrow), invoked |-> <<>>,
   resp |-> NoResponse, escaped |-> FALSE]

Calm == Env(NoOutcome, NoThrow)

\* the last request ended in an error
EndedInError ==
  \/ escaped
  \/ resp.status >= 400
  \/ resp.shape \in {"rpcError", "sdkRpcError"}
  \/ resp.shape = "envelope" /\ resp.env.isError = "true"

\* a failure of the ingestion run: the step that failed and, for a put, the
\* number of the file
Fault(step, of) == [step |-> step, of |-> of]
NoFault == Fault("none", 0)

\* the promise uploadToS3 returns
Promise(state, error) == [state |-> state, error |-> error]

\* the POST /mcp requests the model lets be in flight together
MaxInFlight == 2
Reqs == 1..MaxInFlight

\* a request slot no request has used yet
NoRequest ==
  [pc |-> "idle", call |-> NoCall, rpcId |-> "none", pending |-> FALSE, linked |-> FALSE,
   body |-> NoResponse, id |-> "none", writes |-> 0, threw |-> "no"]

Init ==
  /\ sdk = "unknown"
  /\ connected = 0
  /\ flight = [i \in Reqs |-> NoRequest]
  /\ ipc = "start"
  /\ tempDir = "none"
  /\ rstFiles = <<>>
  /\ cursor = 0
  /\ pandoc = <<>>
  /\ markdownFiles = <<>>
  /\ puts = <<>>
  /\ upload = Promise("none", NoFault)
  /\ failure = NoFault
  /\ thrown = NoFault
  /\ printed = FALSE
  /\ exitCode = "running"
  /\ proc = "starting"
  /\ objects \in StoreChoices
  /\ entry = "none"
  /\ call = NoCall
  /\ invoked = <<>>
  /\ ret = NoReturn
  /\ resp = NoResponse
  /\ escaped = FALSE
  /\ cause = "none"
  /\ world = Calm
  /\ prevFailed = "no"
  /\ earlier = NoEarlier

\* a request arrives when none is being served; the outcome d of its
\* dispatcher becomes the record of the request
RecordAfterFailure(point, c, e, d) ==
  /\ entry = "none"
  /\ world' = e
  /\ entry' = point
  /\ call' = c
  /\ invoked' = d.invoked
  /\ ret' = d.ret
  /\ resp' = IF prevFailed = "no" \/ d.invoked = <<>> THEN d.resp
             ELSE EnvelopeResponse(Failure(<<"previous request failed">>))
  /\ escaped' = d.escaped
  /\ cause' = d.cause
  /\ UNCHANGED <<objects, prevFailed, earlier, flightVars, ingestVars>>
Record(point, c, e, d) ==
  /\ entry = "none"
  /\ world' = e
  /\ entry' = point
  /\ call' = c
  /\ invoked' = d.invoked
  /\ ret' = d.ret
  /\ resp' = d.resp
  /\ escaped' = d.escaped
  /\ cause' = d.cause
  /\ UNCHANGED <<objects, prevFailed, earlier, flightVars, ingestVars>>

\* app.listen(port, () => ...)
Listen ==
  /\ proc = "starting"
  /\ proc' = "listening"
  /\ UNCHANGED <<objects, entry, call, invoked, ret, resp, escaped, cause, world, prevFailed,
                 earlier, flightVars, ingestVars>>

\* .on('error', error => { ...; process.exit(1) })
ListenError ==
  /\ proc = "starting"
  /\ proc' = "exited"
  /\ UNCHANGED <<objects, entry, call, invoked, ret, resp, escaped, cause, world, prevFailed,
                 earlier, flightVars, ingestVars>>

\* one invocation of the Lambda dispatcher
LambdaInvoke ==
  /\ entry = "none"
  /\ \E ev \in LambdaEvents : \E e \in EnvsFor(ev.call) :
       /\ Record("lambda", ev.call, e, LambdaHandler(ev, objects, e))
       /\ UNCHANGED proc

\* app.get('/', ...)
GetRoot ==
  /\ proc = "listening"
  /\ Record("http", NoCall, Calm,
            Dispatch(InfoResponse("running"), FALSE, <<>>, NoReturn, "none"))
  /\ UNCHANGED proc

\* one POST /mcp; a rejection leaving the async route handler is an
\* unhandled rejection, which ends the process
Served(c, e, d) ==
  /\ Record("http", c, e, d)
  /\ proc' = IF d.escaped THEN "exited" ELSE proc

PostMcp ==
  /\ proc = "listening"
  /\ entry = "none"
  /\ \/ Served(NoCall, Calm, HttpPostMcp("unparsable", NoCall, objects, Calm, "toolError", "ok"))
     \/ \E c \in ToolCalls :
          Served(c, Calm, HttpPostMcp("json", c, objects, Calm, "toolError", "throws"))
     \/ \E c \in ToolCalls : \E e \in EnvsFor(c) : \E form \in SdkForms :
          Served(c, e, HttpPostMcp("json", c, objects, e, form, "ok"))

\* res.on('close', () => transport.close()), and the return of the Lambda
\* handler: the request is over and its values are discarded; only whether it
\* ended in an error is remembered, for the claims about the next request
Close ==
  /\ entry # "none"
  /\ entry' = "none"
  /\ call' = NoCall
  /\ invoked' = <<>>
  /\ ret' = NoReturn
  /\ resp' = NoResponse
  /\ escaped' = FALSE
  /\ cause' = "none"
  /\ world' = Calm
  /\ prevFailed' = IF EndedInError THEN entry ELSE "no"
  /\ UNCHANGED <<proc, objects, earlier, flightVars, ingestVars>>

Next == Listen \/ ListenError \/ LambdaInvoke \/ GetRoot \/ PostMcp \/ Close

Spec == Init /\ [][Next]_vars

\* --------------------------------------------- repeated tool calls
\* The same entry points, serving a few tool calls of every tool, with one
\* earlier request kept so that a later identical call can be compared with
\* it; the store is never written by any of them.
RepeatCalls ==
  { ToolCall(ListTool, EmptyArgs),
    ToolCall(ReadTool, Args(TRUE, FALSE, "", FALSE, 0, TRUE, <<"a">>)),
    ToolCall(ReadTool, Args(TRUE, FALSE, "", FALSE, 0, TRUE, <<"/", "a", "a">>)),
    ToolCall(SearchTool, Args(TRUE, TRUE, Query, FALSE, 0, FALSE, <<>>)),
    ToolCall(SearchTool, Args(TRUE, TRUE, Query, TRUE, Whole(MaxRequested), FALSE, <<>>)),
    ToolCall(BogusTool, EmptyArgs) }
RepeatEnvs(c) ==
  IF c.name = SearchTool
    THEN {Env(o, NoThrow) : o \in {x \in RetrieveOutcomes : x.kind = "throw" \/ Len(x.raw) <= 1}}
    ELSE EnvsFor(c)

\* one invocation of the Lambda dispatcher with a tools/call request
LambdaRepeat ==
  /\ entry = "none"
  /\ \E c \in RepeatCalls : \E e \in RepeatEnvs(c) :
       /\ Record("lambda", c, e, LambdaHandler(Event("json", "tools/call", TRUE, c), objects, e))
       /\ UNCHANGED proc

\* one POST /mcp with a tools/call request
PostRepeat ==
  /\ proc = "listening"
  /\ entry = "none"
  /\ \E c \in RepeatCalls : \E e \in RepeatEnvs(c) : \E form \in SdkForms :
       Served(c, e, HttpPostMcp("json", c, objects, e, form, "ok"))

\* the request is over, as in Close, and is the one kept for comparison
Remember ==
  /\ entry # "none"
  /\ earlier' = [point |-> entry, call |-> call, world |-> world, invoked |-> invoked,
                 resp |-> resp, escaped |-> escaped]
  /\ entry' = "none"
  /\ call' = NoCall
  /\ invoked' = <<>>
  /\ ret' = NoReturn
  /\ resp' = NoResponse
  /\ escaped' = FALSE
  /\ cause' = "none"
  /\ world' = Calm
  /\ prevFailed' = IF EndedInError THEN entry ELSE "no"
  /\ UNCHANGED <<proc, objects, flightVars, ingestVars>>

NextRepeat == Listen \/ ListenError \/ LambdaRepeat \/ PostRepeat \/ Remember \/ Close

SpecRepeat == Init /\ [][NextRepeat]_vars

\* --------------------------------------------- POST /mcp requests in flight
\* The route handler of POST /mcp is async: between its awaits, and between
\* its return and the moment the tool callback's result is sent, other
\* requests run.  All of them connect the one McpServer of the module to a
\* transport of their own.  What connect() does to a server that is still
\* connected, and which transport a result is sent on, is the library's
\* behaviour: connect replaces the server's transport and a result is sent on
\* the transport the server holds when the callback ends ("replaces"), or on
\* the transport the request came in on ("captures"), or connect throws while
\* the server holds a transport ("refuses").
SdkConnects == {"replaces", "captures", "refuses"}

\* the JSON-RPC ids clients number their requests with
RpcIds == {"1", "2"}

FlightCalls ==
  { ToolCall(ListTool, EmptyArgs),
    ToolCall(ReadTool, Args(TRUE, FALSE, "", FALSE, 0, TRUE, <<"a">>)) }

\* how transport.handleRequest ends: it hands the message to the server and
\* returns, it throws before it wrote anything, or it throws after it wrote a
\* refusal of its own
TransportOutcomes == {"accepted", "throws", "throwsAfterWrite"}
TransportRefusal == Response(400, "sdkRpcError", NoEnvelope, <<"Bad Request">>, 0)

\* a body written to the response object of request r, id being the id
\* member of a JSON-RPC body
Write(r, body, id) ==
  [r EXCEPT !.body = body, !.id = id, !.writes = @ + 1, !.pending = FALSE]

\* catch (error) { if (!res.headersSent) res.status(500).json({ ..., id: null }) }
CatchBlockUnguarded(r) ==
  Write(r, RpcError(500, InternalErrorCode, "Internal server error"), "null")
CatchBlock(r) ==
  IF r.writes = 0
    THEN Write(r, RpcError(500, InternalErrorCode, "Internal server error"), "null")
    ELSE r

\* a POST /mcp arrives: new StreamableHTTPServerTransport(...) and
\* res.on('close', ...); requests take the slots in order
Arrive(i) ==
  /\ proc = "listening"
  /\ flight[i].pc = "idle"
  /\ \A j \in 1..(i - 1) : flight[j].pc # "idle"
  /\ \E c \in FlightCalls : \E id \in RpcIds :
       flight' = [flight EXCEPT ![i] = [NoRequest EXCEPT !.pc = "created", !.call = c,
                                                        !.rpcId = id]]
  /\ UNCHANGED <<sdk, connected, requestVars, ingestVars>>

\* await server.connect(transport)
Connect(i) ==
  /\ flight[i].pc = "created"
  /\ \E b \in (IF sdk = "unknown" THEN SdkConnects ELSE {sdk}) :
       /\ sdk' = b
       /\ IF b = "refuses" /\ connected # 0
            THEN /\ flight' = [flight EXCEPT ![i] = [CatchBlock(flight[i]) EXCEPT
                                                      !.pc = "returned", !.threw = "connect"]]
                 /\ UNCHANGED connected
            ELSE /\ flight' = [flight EXCEPT ![i].pc = "connected", ![i].linked = TRUE]
                 /\ connected' = i
  /\ UNCHANGED <<requestVars, ingestVars>>

\* await transport.handleRequest(req, res, req.body), up to the return of
\* the route handler
HandleRequest(i) ==
  /\ flight[i].pc = "connected"
  /\ \E o \in TransportOutcomes :
       flight' = [flight EXCEPT ![i] =
         CASE o = "accepted" -> [flight[i] EXCEPT !.pc = "running", !.pending = TRUE]
           [] o = "throws" -> [CatchBlock(flight[i]) EXCEPT !.pc = "returned", !.threw = "before"]
           [] o = "throwsAfterWrite" ->
                [CatchBlock(Write(flight[i], TransportRefusal, "null")) EXCEPT
                   !.pc = "returned", !.threw = "after"]]
  /\ UNCHANGED <<sdk, connected, requestVars, ingestVars>>

\* the tool callback of request i ends and the server sends its result: on
\* the transport the request came in on or on the one the server holds now;
\* a transport writes the result to its response object when it waits for a
\* result of that id, and the result is dropped otherwise
Respond(i) ==
  /\ flight[i].pc = "running"
  /\ LET d == McpServerCall(flight[i].call, objects, Calm, "toolError")
         t == IF sdk = "captures" THEN i ELSE connected
         after == [flight EXCEPT ![i].pc = "sent"]
     IN  flight' = IF t # 0 /\ flight[t].pending /\ flight[t].rpcId = flight[i].rpcId
                     THEN [after EXCEPT ![t] = Write(after[t], d.resp, flight[i].rpcId)]
                     ELSE after
  /\ UNCHANGED <<sdk, connected, requestVars, ingestVars>>

\* res.on('close', () => transport.close()): the response was written, or
\* the client stopped waiting for one; closing a transport the server was
\* connected to makes the server drop the transport it holds
ResClose(i) ==
  /\ flight[i].pc \in {"running", "sent", "returned"}
  /\ flight[i].writes > 0 \/ flight[i].pc = "sent"
  /\ flight' = [flight EXCEPT ![i].pc = "closed", ![i].pending = FALSE]
  /\ connected' = IF flight[i].linked THEN 0 ELSE connected
  /\ UNCHANGED <<sdk, requestVars, ingestVars>>

NextFlight ==
  \/ Listen
  \/ ListenError
  \/ \E i \in Reqs : Arrive(i)
  \/ \E i \in Reqs : Connect(i)
  \/ \E i \in Reqs : HandleRequest(i)
  \/ \E i \in Reqs : Respond(i)
  \/ \E i \in Reqs : ResClose(i)

SpecFlight == Init /\ [][NextFlight]_vars

\* ------------------------------------------------------ ingestion script
\* The ingestion script (clone-docs.ts, convert-rst.ts, upload-s3.ts and its
\* main) writes the bucket the tools read.  Every call that leaves the
\* process (mkdtemp, git, rm, glob, pandoc, PutObject) succeeds or fails.
MaxFiles == 2

DOCS_PREFIX == "smithy-docs/"

\* the .rst files of the docs, as paths relative to docsPath
RstPool ==
  { <<"a", ".rst">>, <<"a", "/", "a", ".rst">>, <<"R", "o", "o", "t", "/", "a", ".rst">> }

\* glob('**/*.rst', ...): some of the files, each once, in the order the
\* file system gives them
RstChoices ==
  {f \in SeqsUpTo(RstPool, MaxFiles) : \A i, j \in 1..Len(f) : i # j => f[i] # f[j]}

\* relative(docsPath, rstFile).replace(/\.rst$/, '.md')
ToMarkdownPathKeepRst(rst) == rst
ToMarkdownPath(rst) ==
  IF rst # <<>> /\ rst[Len(rst)] = ".rst" THEN SubSeq(rst, 1, Len(rst) - 1) \o <<".md">>
  ELSE rst

\* matter.stringify(stdout, { title, source, original_format }): pandoc's
\* output of the file under a front matter block naming its source
MatterStringify(rst) ==
  CASE rst = <<"a", ".rst">> ->
         "---\ntitle: a\nsource: smithy-docs/a.md\noriginal_format: rst\n---\n# a\n"
    [] rst = <<"a", "/", "a", ".rst">> ->
         "---\ntitle: a\nsource: smithy-docs/a/a.md\noriginal_format: rst\n---\ntext\n"
    [] OTHER ->
         "---\ntitle: Root a\nsource: smithy-docs/Root/a.md\noriginal_format: rst\n---\n# Root a\n"

\* { path: rstFile, content: contentWithMeta, relativePath }
MarkdownFile(rst) ==
  [path |-> rst, content |-> MatterStringify(rst), relativePath |-> ToMarkdownPath(rst)]

\* const key = prefix + file.relativePath
UploadKey(prefix, file) == <<prefix>> \o file.relativePath

\* PutObjectCommand on the bucket: the object under the key is replaced, or
\* added where the key order puts it
RECURSIVE PutObject(_, _)
PutObject(objs, o) ==
  IF objs = <<>> THEN <<o>>
  ELSE IF Head(objs).key = o.key THEN <<o>> \o Tail(objs)
  ELSE IF LexLess(Tail(o.key), Tail(Head(objs).key)) THEN <<o>> \o objs
  ELSE <<Head(objs)>> \o PutObject(Tail(objs), o)

\* main(): catch (error) { console.error(...); process.exit(1) }
MainCatch(error) ==
  /\ thrown' = error
  /\ exitCode' = "1"
  /\ ipc' = "exited"
  /\ UNCHANGED printed

\* cloneDocs(): await mkdtemp(join('./', 'smithy-docs-')), outside the try
Mkdtemp ==
  /\ ipc = "start"
  /\ \/ /\ tempDir' = "present"
        /\ ipc' = "clone"
        /\ UNCHANGED <<failure, thrown, printed, exitCode>>
     \/ /\ failure' = Fault("mkdtemp", 0)
        /\ MainCatch(Fault("mkdtemp", 0))
        /\ UNCHANGED tempDir
  /\ UNCHANGED <<rstFiles, cursor, pandoc, markdownFiles, puts, upload, requestVars, flightVars>>

\* await git.clone(SMITHY_REPO, tempDir, [...]); a failure enters the catch
GitClone ==
  /\ ipc = "clone"
  /\ \/ ipc' = "sparse" /\ UNCHANGED failure
     \/ ipc' = "cleanup" /\ failure' = Fault("clone", 0)
  /\ UNCHANGED <<tempDir, rstFiles, cursor, pandoc, markdownFiles, puts, upload, thrown, printed,
                 exitCode, requestVars, flightVars>>

\* await repoGit.raw(['sparse-checkout', 'set', DOCS_SUBDIR]); return join(...)
SparseCheckout ==
  /\ ipc = "sparse"
  /\ \/ ipc' = "glob" /\ UNCHANGED failure
     \/ ipc' = "cleanup" /\ failure' = Fault("sparse-checkout", 0)
  /\ UNCHANGED <<tempDir, rstFiles, cursor, pandoc, markdownFiles, puts, upload, thrown, printed,
                 exitCode, requestVars, flightVars>>

\* catch (error) { await rm(tempDir, { recursive: true, force: true }); throw error }
\* and the catch of main(); a failing rm throws its own failure instead
RemoveKeepsDir ==
  /\ ipc = "cleanup"
  /\ \/ MainCatch(failure)
     \/ MainCatch(Fault("rm", 0))
  /\ UNCHANGED <<tempDir, rstFiles, cursor, pandoc, markdownFiles, puts, upload, failure,
                 requestVars, flightVars>>
Remove ==
  /\ ipc = "cleanup"
  /\ \/ tempDir' = "removed" /\ MainCatch(failure)
     \/ UNCHANGED tempDir /\ MainCatch(Fault("rm", 0))
  /\ UNCHANGED <<rstFiles, cursor, pandoc, markdownFiles, puts, upload, failure, requestVars,
                 flightVars>>

\* convertRstToMarkdown(): const rstFiles = await glob('**/*.rst', ...)
Glob ==
  /\ ipc = "glob"
  /\ \/ /\ \E f \in RstChoices : rstFiles' = f
        /\ ipc' = "version"
        /\ UNCHANGED <<failure, thrown, printed, exitCode>>
     \/ /\ failure' = Fault("glob", 0)
        /\ MainCatch(Fault("glob", 0))
        /\ UNCHANGED rstFiles
  /\ UNCHANGED <<tempDir, cursor, pandoc, markdownFiles, puts, upload, requestVars, flightVars>>

\* try { await execAsync('pandoc --version') } catch { throw new Error('Pandoc is required...') }
PandocVersion ==
  /\ ipc = "version"
  /\ \/ /\ ipc' = "convert"
        /\ UNCHANGED <<failure, thrown, printed, exitCode>>
     \/ /\ failure' = Fault("Pandoc is required", 0)
        /\ MainCatch(Fault("Pandoc is required", 0))
  /\ UNCHANGED <<tempDir, rstFiles, cursor, pandoc, markdownFiles, puts, upload, requestVars,
                 flightVars>>

\* one round of for (const rstFile of rstFiles) { try { ... push ... } catch { log } }
ConvertFileStopsAtFailure ==
  /\ ipc = "convert"
  /\ cursor < Len(rstFiles)
  /\ \E ok \in BOOLEAN :
       /\ pandoc' = Append(pandoc, ok)
       /\ markdownFiles' = IF ok THEN Append(markdownFiles, MarkdownFile(rstFiles[cursor + 1]))
                           ELSE markdownFiles
       /\ cursor' = IF ok THEN cursor + 1 ELSE Len(rstFiles)
  /\ UNCHANGED <<ipc, tempDir, rstFiles, puts, upload, failure, thrown, printed, exitCode,
                 requestVars, flightVars>>
ConvertFile ==
  /\ ipc = "convert"
  /\ cursor < Len(rstFiles)
  /\ \E ok \in BOOLEAN :
       /\ pandoc' = Append(pandoc, ok)
       /\ markdownFiles' = IF ok THEN Append(markdownFiles, MarkdownFile(rstFiles[cursor + 1]))
                           ELSE markdownFiles
  /\ cursor' = cursor + 1
  /\ UNCHANGED <<ipc, tempDir, rstFiles, puts, upload, failure, thrown, printed, exitCode,
                 requestVars, flightVars>>

\* return markdownFiles; and uploadToS3(markdownFiles, BUCKET_NAME, DOCS_PREFIX)
\* up to await Promise.all(uploads): files.map starts the put of every file
UploadToS3 ==
  /\ ipc = "convert"
  /\ cursor = Len(rstFiles)
  /\ puts' = [i \in 1..Len(markdownFiles) |-> "pending"]
  /\ upload' = Promise(IF markdownFiles = <<>> THEN "resolved" ELSE "pending", NoFault)
  /\ ipc' = "await"
  /\ UNCHANGED <<tempDir, rstFiles, cursor, pandoc, markdownFiles, failure, thrown, printed,
                 exitCode, requestVars, flightVars>>

\* Promise.all after the put of file i settled as `now`
AllSettlesWaitsForAll(after, i, now) ==
  IF upload.state # "pending" THEN upload
  ELSE IF \A j \in 1..Len(after) : after[j] = "stored" THEN Promise("resolved", NoFault)
  ELSE IF \A j \in 1..Len(after) : after[j] # "pending"
    THEN Promise("rejected", Fault("put", CHOOSE j \in 1..Len(after) : after[j] = "failed"))
  ELSE upload
AllSettles(after, i, now) ==
  IF upload.state # "pending" THEN upload
  ELSE IF now = "failed" THEN Promise("rejected", Fault("put", i))
  ELSE IF \A j \in 1..Len(after) : after[j] = "stored" THEN Promise("resolved", NoFault)
  ELSE upload

\* the put of file i settles: await s3Client.send(new PutObjectCommand(...))
\* returns, or throws and the catch rethrows; the record of a served request
\* is closed before the bucket changes under it
PutSettles(i) ==
  /\ exitCode = "running"
  /\ entry = "none"
  /\ i \in 1..Len(puts)
  /\ puts[i] = "pending"
  /\ \E now \in {"stored", "failed"} :
       LET after == [puts EXCEPT ![i] = now]
           file == markdownFiles[i]
       IN  /\ puts' = after
           /\ objects' = IF now = "stored"
                           THEN PutObject(objects, [key |-> UploadKey(DOCS_PREFIX, file),
                                                    hasBody |-> TRUE, content |-> file.content])
                           ELSE objects
           /\ upload' = AllSettles(after, i, now)
           /\ failure' = IF now = "failed" /\ failure = NoFault THEN Fault("put", i) ELSE failure
  /\ UNCHANGED <<ipc, tempDir, rstFiles, cursor, pandoc, markdownFiles, thrown, printed, exitCode,
                 proc, entry, call, invoked, ret, resp, escaped, cause, world, prevFailed, earlier,
                 flightVars>>

\* main() after await uploadToS3(...) returned: console.log('Ingestion complete!')
CompleteAnyway ==
  /\ ipc = "await"
  /\ upload.state \in {"resolved", "rejected"}
  /\ printed' = TRUE
  /\ ipc' = "complete"
  /\ exitCode' = "0"
  /\ UNCHANGED <<tempDir, rstFiles, cursor, pandoc, markdownFiles, puts, upload, failure, thrown,
                 requestVars, flightVars>>
Complete ==
  /\ ipc = "await"
  /\ upload.state = "resolved"
  /\ printed' = TRUE
  /\ ipc' = "complete"
  /\ exitCode' = "0"
  /\ UNCHANGED <<tempDir, rstFiles, cursor, pandoc, markdownFiles, puts, upload, failure, thrown,
                 requestVars, flightVars>>

\* main() after await uploadToS3(...) threw: the catch of main()
UploadFailed ==
  /\ ipc = "await"
  /\ upload.state = "rejected"
  /\ MainCatch(upload.error)
  /\ UNCHANGED <<tempDir, rstFiles, cursor, pandoc, markdownFiles, puts, upload, failure,
                 requestVars, flightVars>>

\* the paths a client asks the tools for: the paths of the stored objects
\* and the relative paths of the docs
ServedPaths ==
  {RemovePrefix(objects[i].key) : i \in 1..Len(objects)} \cup {ToMarkdownPath(f) : f \in RstPool}
ServedCalls ==
  {ToolCall(ListTool, EmptyArgs)}
    \cup {ToolCall(ReadTool, Args(TRUE, FALSE, "", FALSE, 0, TRUE, r)) : r \in ServedPaths}

\* a read or list call served from the bucket, by the Lambda dispatcher
ServeLambda ==
  /\ entry = "none"
  /\ \E c \in ServedCalls :
       Record("lambda", c, Calm, LambdaHandler(Event("json", "tools/call", TRUE, c), objects, Calm))
  /\ UNCHANGED proc

\* a read or list call served from the bucket, by POST /mcp
ServePost ==
  /\ proc = "listening"
  /\ entry = "none"
  /\ \E c \in ServedCalls :
       Served(c, Calm, HttpPostMcp("json", c, objects, Calm, "toolError", "ok"))

NextIngest ==
  \/ Mkdtemp
  \/ GitClone
  \/ SparseCheckout
  \/ Remove
  \/ Glob
  \/ PandocVersion
  \/ ConvertFile
  \/ UploadToS3
  \/ \E i \in 1..MaxFiles : PutSettles(i)
  \/ Complete
  \/ UploadFailed
  \/ Listen
  \/ ServeLambda
  \/ ServePost
  \/ Close

SpecIngest == Init /\ [][NextIngest]_vars

\* the ingestion script run by itself, as `pnpm ingest` does; every call it
\* awaits settles and the event loop then runs the continuation, so a step
\* of the run that can be taken is taken
NextRun ==
  \/ Mkdtemp
  \/ GitClone
  \/ SparseCheckout
  \/ Remove
  \/ Glob
  \/ PandocVersion
  \/ ConvertFile
  \/ UploadToS3
  \/ \E i \in 1..MaxFiles : PutSettles(i)
  \/ Complete
  \/ UploadFailed

SpecRun == Init /\ [][NextRun]_vars /\ WF_vars(NextRun)

\* ============================================================== claims
\* a request has been dispatched and its record is in the state
Done == entry # "none"
\* the request carried a tools/call for one of the registered tools
RegisteredCall == Done /\ call.isToolCall /\ call.name \in ToolNames
SearchCall == RegisteredCall /\ call.name = SearchTool
\* the limits of the retrieval operations issued for the request
Limits == [i \in 1..Len(ret.ops) |-> ret.ops[i].limit]
Mentions(text, piece) == \E i \in 1..Len(text) : text[i] = piece
\* the text of a one-block envelope
TextOf(env) == env.content[1].text
\* { content: [ { type: "text", text: string } ], isError?: true }
Uniform(env) ==
  /\ Len(env.content) = 1
  /\ env.content[1].type = "text"
  /\ \A i \in 1..Len(env.content[1].text) : env.content[1].text[i] \in STRING
  /\ env.isError \in {"absent", "true"}
IsToolError(r) == r.shape = "envelope" /\ Uniform(r.env) /\ r.env.isError = "true"
Slashes(k) == [i \in 1..k |-> "/"]

\* C1 (as claimed): whenever the collaborator throws, the request body cannot
\* be parsed or the arguments are missing, the dispatcher answers with a
\* ToolResponse flagged isError and no exception leaves it.
C1_EveryFailureIsToolError ==
  (Done /\ cause \in {"collaborator", "parse", "arguments"})
    => (~escaped /\ IsToolError(resp))

C3_ProcessSurvivesErrors ==
  /\ (entry = "http" /\ EndedInError) => proc = "listening"
  /\ prevFailed = "http" =>
       /\ proc = "listening"
       /\ entry = "http" => resp.status # 0
       /\ entry = "none" => ENABLED PostMcp
C3_Witness ==
  /\ prevFailed = "http"
  /\ entry = "http"
  /\ call.isToolCall
  /\ resp.status = 200
  /\ proc = "listening"

Accepted ==
  \/ entry = "lambda"
  \/ entry = "http" /\ cause # "transport" /\ SchemaAccepts(call)
C7_LimitWithinOneToTen ==
  SearchCall => \A i \in 1..Len(Limits) : Whole(1) <= Limits[i] /\ Limits[i] <= Whole(10)

ReadIssued == Done /\ invoked = <<ReadTool>> /\ ret.ops # <<>>
C9_LeadingSlashesIgnored ==
  ReadIssued =>
    LET key == ret.ops[1].key
        rest == Tail(key)
        path == call.args.path
    IN  /\ Len(ret.ops) = 1
        /\ ret.ops[1].op = "get"
        /\ Head(key) = NS
        /\ rest = <<>> \/ Head(rest) # "/"
        /\ \E k \in 0..Len(path) : path = Slashes(k) \o rest
        /\ \A k \in 0..MaxPathLen :
             /\ DocumentKey(Slashes(k) \o path) = key
             /\ <<NS>> \o StripLeadingSlashes(Slashes(k) \o rest) = key
C9_Witness ==
  /\ ReadIssued
  /\ call.args.path = <<"/", "/", "a">>
  /\ ret.ops[1].key = <<NS, "a">>

\* C10: an empty result is a success: a search whose retrieval returns no
\* result, and a list whose listing returns no key, are answered with an
\* envelope that carries an explanatory text and has isError unset.
EmptyRetrieval ==
  /\ Len(ret.ops) = 1
  /\ ret.ops[1].op = "retrieve"
  /\ world.out.kind = "ok"
  /\ ~world.out.hasResults \/ world.out.raw = <<>>
EmptyListing ==
  /\ Len(ret.ops) = 1
  /\ ret.ops[1].op = "list"
  /\ world.fault = NoThrow
  /\ objects = <<>>
C10_EmptyIsSuccess ==
  /\ (Done /\ invoked = <<SearchTool>> /\ EmptyRetrieval) =>
       /\ resp.shape = "envelope"
       /\ Uniform(resp.env)
       /\ resp.env.isError = "absent"
       /\ TextOf(resp.env) # <<>>
       /\ entry = "lambda" => TextOf(resp.env) = NoResultsText
  /\ (Done /\ invoked = <<ListTool>> /\ EmptyListing) =>
       /\ resp.shape = "envelope"
       /\ Uniform(resp.env)
       /\ resp.env.isError = "absent"
       /\ TextOf(resp.env) # <<>>
       /\ entry = "lambda" => TextOf(resp.env) = NoFilesText
C10_Witness ==
  /\ entry = "lambda"
  /\ invoked = <<SearchTool>>
  /\ EmptyRetrieval
  /\ world.out.hasResults
  /\ resp.env = Success(NoResultsText)

\* ------------------------------------------------ claims on read failures
\* the text part occurs in the text, piece for piece
Contains(text, part) ==
  \E i \in 1..(Len(text) + 1) :
    /\ i + Len(part) - 1 <= Len(text)
    /\ SubSeq(text, i, i + Len(part) - 1) = part
\* what the entry point answers to the tool call c when the store holds objs
\* and the collaborators answer e
Reply(point, c, objs, e) ==
  IF point = "lambda"
    THEN LambdaHandler(Event("json", "tools/call", TRUE, c), objs, e).resp
    ELSE HttpPostMcp("json", c, objs, e, "toolError", "ok").resp
\* a read ran and asked the store for a key
ReadRan == Done /\ invoked = <<ReadTool>> /\ Len(ret.ops) = 1 /\ ret.ops[1].op = "get"
Stored(key) == {objects[i] : i \in {j \in 1..Len(objects) : objects[j].key = key}}
\* the store answered the read with its not-found condition
ReadMissing == ReadRan /\ world.fault = NoThrow /\ Stored(ret.ops[1].key) = {}
\* the store answered the read with an object that has no text
ReadEmpty ==
  /\ ReadRan
  /\ world.fault = NoThrow
  /\ \E o \in Stored(ret.ops[1].key) : ~o.hasBody \/ o.content = ""
\* the store answered the read with an object that has a text
ReadFull ==
  /\ ReadRan
  /\ world.fault = NoThrow
  /\ \E o \in Stored(ret.ops[1].key) : o.hasBody /\ o.content # ""

\* C11 (as claimed): when the object store reports not-found for the requested
\* key, the read is answered with an envelope flagged isError whose text
\* contains the path as requested and the tip to use the search tool, and
\* which differs from the answer to the same read under any other failure of
\* the store.
C11_NotFoundNamesPathAndTip ==
  ReadMissing =>
    /\ IsToolError(resp)
    /\ Contains(TextOf(resp.env), call.args.path)
    /\ Mentions(TextOf(resp.env), SearchTip)
    /\ \A f \in Thrown : Reply(entry, call, objects, Env(NoOutcome, f)) # resp

\* C12 (as claimed): when the requested object exists but its content is empty
\* or it has no readable body, the read is answered with an envelope flagged
\* isError whose text says the document was found but is empty and is not the
\* not-found text; it is never answered with a success.
C12_EmptyContentIsError ==
  ReadEmpty =>
    /\ IsToolError(resp)
    /\ Mentions(TextOf(resp.env), EmptyPrefix)
    /\ ~Mentions(TextOf(resp.env), NotFoundPrefix)

\* the value the collaborator of the call threw, NoThrow if it threw nothing
Failed == IF call.name = SearchTool THEN world.out.error ELSE world.fault
PrefixOf(name) ==
  CASE name = SearchTool -> SearchErrorPrefix
    [] name = ReadTool -> ReadErrorPrefix
    [] OTHER -> ListErrorPrefix
\* the message of a failure as the claim reads it
ClaimedMessage(f) == IF f.nullish \/ f.message = "" THEN "Unknown error" ELSE f.message

\* C13 (as claimed): whatever value the collaborator of search, read or list
\* throws (read's not-found aside), the handler returns an envelope flagged
\* isError whose text is the handler's fixed prefix followed by the failure's
\* message, or by "Unknown error" when the failure carries no message, and
\* nothing is propagated out of the handler.
C13_CollaboratorFailureWrapped ==
  (Done /\ invoked # <<>> /\ Len(ret.ops) = 1 /\ Failed # NoThrow)
    => /\ ret.returned
       /\ ~escaped
       /\ resp = EnvelopeResponse(Failure(<<PrefixOf(call.name), ClaimedMessage(Failed)>>))

\* C14: when the requested object exists with a non-empty content c, the read
\* of path p is answered with a success envelope (isError unset) whose text is
\* exactly "# " + p + "\n\n" + c, with p as the client sent it (leading '/'
\* kept) and c the stored content as it is.
C14_ReadReturnsHeadingAndContent ==
  ReadFull =>
    \A o \in Stored(ret.ops[1].key) :
      /\ ~escaped
      /\ ret.returned
      /\ resp = EnvelopeResponse(Success(<<"# ">> \o call.args.path \o <<"\n\n", o.content>>))
      /\ resp.env.isError = "absent"
      /\ Len(TextOf(resp.env)) = Len(call.args.path) + 3
C14_Witness ==
  /\ ReadFull
  /\ entry = "lambda"
  /\ call.args.path = <<"/", "a">>
  /\ ret.ops[1].key = <<NS, "a">>
  /\ TextOf(resp.env) = <<"# ", "/", "a", "\n\n", "# Hello">>

\* ------------------------------------------- claims on the search report
\* the indices from i on at which the piece occurs in the text, ascending
RECURSIVE Positions(_, _, _)
Positions(text, piece, i) ==
  IF i > Len(text) THEN <<>>
  ELSE (IF text[i] = piece THEN <<i>> ELSE <<>>) \o Positions(text, piece, i + 1)
ResultMark == "## Result "
\* the part of a report before its first result block
HeaderOf(text) ==
  LET ps == Positions(text, ResultMark, 1)
  IN  IF ps = <<>> THEN text ELSE SubSeq(text, 1, ps[1] - 1)
\* the k-th result block of a report: from its mark up to the next mark
BlockOf(text, k) ==
  LET ps == Positions(text, ResultMark, 1)
  IN  SubSeq(text, ps[k], IF k < Len(ps) THEN ps[k + 1] - 1 ELSE Len(text))
\* a search ran and retrieval returned at least one result
SearchFound ==
  /\ Done
  /\ invoked = <<SearchTool>>
  /\ Len(ret.ops) = 1
  /\ ret.ops[1].op = "retrieve"
  /\ call.args.hasQuery
  /\ world.out.kind = "ok"
  /\ world.out.hasResults
  /\ world.out.raw # <<>>
\* the results retrieval returned, as bedrock-client hands them on
Found == [i \in 1..Len(world.out.raw) |-> ToSearchResult(world.out.raw[i])]
\* the report has exactly one block per result, in the order of the results,
\* the k-th with ordinal k and the content of the k-th result
BlocksFollowResults(text) ==
  /\ Len(Positions(text, ResultMark, 1)) = Len(Found)
  /\ \A k \in 1..Len(Found) :
       LET block == BlockOf(text, k)
       IN  /\ block[2] = ToString(k)
           /\ Mentions(block, Found[k].content)
           /\ \A j \in 1..Len(Found) :
                (Found[j].content # Found[k].content /\ Found[j].content # "")
                  => ~Mentions(block, Found[j].content)

SourceMark == ")\n**Source:** "
\* the pieces of s that are not the piece x
RECURSIVE Without(_, _)
Without(t, x) ==
  IF t = <<>> THEN <<>>
  ELSE (IF Head(t) = x THEN <<>> ELSE <<Head(t)>>) \o Without(Tail(t), x)
\* the source label of a result block: what stands between the source mark
\* and the blank line after it, without the quoting characters
LabelOf(block) ==
  LET from == IndexOf(block, SourceMark)
      rest == SubSeq(block, from + 1, Len(block))
  IN  Without(SubSeq(rest, 1, IndexOf(rest, "\n\n") - 1), Backtick)
\* the score of a result block: what stands between the third piece of the
\* block and the source mark
ScoreOf(block) == SubSeq(block, 4, IndexOf(block, SourceMark) - 1)
\* seg is the part of uri after its last '/', the whole uri when it has none
IsFinalSegment(seg, uri) ==
  \E n \in 0..Len(uri) :
    /\ seg = SubSeq(uri, n + 1, Len(uri))
    /\ \A i \in 1..Len(seg) : seg[i] # "/"
    /\ n = 0 \/ uri[n] = "/"

\* C16: in the search report the source label of every result is the final
\* '/'-separated segment of the result's source location, and is "unknown"
\* when the location is empty (or was left out by retrieval) or ends in '/'.
C16_SourceLabelIsFinalSegment ==
  (SearchFound /\ resp.shape = "envelope" /\ resp.env.isError = "absent") =>
    \A k \in 1..Len(Found) :
      LET label == LabelOf(BlockOf(TextOf(resp.env), k))
          uri == Found[k].s3Uri
      IN  /\ (uri = <<>> \/ uri[Len(uri)] = "/") => label = <<"unknown">>
          /\ (uri # <<>> /\ uri[Len(uri)] # "/") => IsFinalSegment(label, uri)
          /\ ~world.out.raw[k].hasUri => label = <<"unknown">>
C16_Witness ==
  /\ SearchFound
  /\ Len(Found) = 2
  /\ Found[1].s3Uri = <<"a", "/">>
  /\ Found[2].s3Uri = <<"a", "/", "a">>
  /\ LabelOf(BlockOf(TextOf(resp.env), 1)) = <<"unknown">>
  /\ LabelOf(BlockOf(TextOf(resp.env), 2)) = <<"a">>

\* the number a decimal digit stands for, 10 for any other piece
DigitValue(d) == IF \E n \in 0..9 : ToString(n) = d THEN CHOOSE n \in 0..9 : ToString(n) = d ELSE 10
\* the pieces write a number with exactly three decimals, and that number is
\* the score rounded to thousandths
RendersToThreeDecimals(pieces, score) ==
  /\ Len(pieces) = 5
  /\ pieces[2] = "."
  /\ \A i \in {1, 3, 4, 5} : DigitValue(pieces[i]) < 10
  /\ LET thousandths == DigitValue(pieces[1]) * 1000 + DigitValue(pieces[3]) * 100
                          + DigitValue(pieces[4]) * 10 + DigitValue(pieces[5])
     IN  /\ ScoreUnit * thousandths - ScoreUnit \div 2 <= score
         /\ score < ScoreUnit * thousandths + ScoreUnit \div 2

\* C17: in the search report every relevance score is written with exactly
\* three decimal places (0.8234567 as 0.823, 0.91 as 0.910), and a score
\* retrieval left out is written 0.000.
C17_ScoreHasThreeDecimals ==
  (SearchFound /\ resp.shape = "envelope" /\ resp.env.isError = "absent") =>
    \A k \in 1..Len(Found) :
      LET pieces == ScoreOf(BlockOf(TextOf(resp.env), k))
      IN  /\ RendersToThreeDecimals(pieces, Found[k].score)
          /\ ~world.out.raw[k].hasScore => pieces = <<"0", ".", "0", "0", "0">>
          /\ Found[k].score = 8234567 => pieces = <<"0", ".", "8", "2", "3">>
          /\ Found[k].score = 9100000 => pieces = <<"0", ".", "9", "1", "0">>
C17_Witness ==
  /\ SearchFound
  /\ Len(Found) = 2
  /\ world.out.raw[1].hasScore
  /\ Found[1].score = 9100000
  /\ ~world.out.raw[2].hasScore
  /\ ScoreOf(BlockOf(TextOf(resp.env), 1)) = <<"0", ".", "9", "1", "0">>
  /\ ScoreOf(BlockOf(TextOf(resp.env), 2)) = <<"0", ".", "0", "0", "0">>

\* ---------------------------------------------- claims on the list report
GroupMark == "## "
BulletMark == "- "
\* the k-th group section of a list report: from its mark up to the next mark
SectionOf(text, k) ==
  LET ps == Positions(text, GroupMark, 1)
  IN  SubSeq(text, ps[k], IF k < Len(ps) THEN ps[k + 1] - 1 ELSE Len(text))
Sections(text) == [k \in 1..Len(Positions(text, GroupMark, 1)) |-> SectionOf(text, k)]
\* the name a section is headed with
GroupName(section) == SubSeq(section, 2, IndexOf(section, "\n\n") - 1)
\* the path of the bullet that starts at index q of a text
BulletAt(text, q) ==
  LET rest == SubSeq(text, q + 1, Len(text))
  IN  Without(SubSeq(rest, 1, IndexOf(rest, "\n") - 1), Backtick)
\* the paths of the bullets of a text, in the order they are written
BulletsOf(text) ==
  LET qs == Positions(text, BulletMark, 1)
  IN  [j \in 1..Len(qs) |-> BulletAt(text, qs[j])]
\* a list ran and the listing returned at least one key
ListFound ==
  /\ Done
  /\ invoked = <<ListTool>>
  /\ Len(ret.ops) = 1
  /\ ret.ops[1].op = "list"
  /\ world.fault = NoThrow
  /\ objects # <<>>
\* the key of the i-th listed object without the namespace in front of it
Stripped(i) == Tail(objects[i].key)
\* the group the claim assigns to a path
IsGroupOf(group, path) ==
  IF \A i \in 1..Len(path) : path[i] # "/"
    THEN group = RootGroup
    ELSE \E n \in 1..Len(path) :
           /\ path[n] = "/"
           /\ \A i \in (n + 1)..Len(path) : path[i] # "/"
           /\ group = SubSeq(path, 1, n - 1)
\* the index in the listing of the object whose stripped key is path
ListedAt(path) == CHOOSE i \in 1..Len(objects) : Stripped(i) = path

\* C18 (as claimed): for a non-empty listing, list answers with a report in
\* which every key, with the namespace stripped, stands in the group "Root"
\* when it has no '/' and otherwise in the group named by all its segments but
\* the last, and whose header states the number of files listed.
C18_GroupedByDirectory ==
  ListFound =>
    /\ resp.shape = "envelope"
    /\ resp.env.isError = "absent"
    /\ LET text == TextOf(resp.env)
           secs == Sections(text)
       IN  /\ HeaderOf(text) # <<>>
           /\ Mentions(SubSeq(text, 1, 3), ToString(Len(objects)))
           /\ Len(BulletsOf(text)) = Len(objects)
           /\ \A i \in 1..Len(objects) :
                \E k \in 1..Len(secs) :
                  /\ IsGroupOf(GroupName(secs[k]), Stripped(i))
                  /\ \E j \in 1..Len(BulletsOf(secs[k])) : BulletsOf(secs[k])[j] = Stripped(i)

\* C19: whenever list answers with a report, its groups are written in
\* ascending code unit order of their names, each name once, and inside each
\* group the paths stand in the relative order in which the listing returned
\* their keys; every listed key stands in exactly one group.
C19_GroupsSortedFilesInListingOrder ==
  (ListFound /\ resp.shape = "envelope" /\ resp.env.isError = "absent") =>
    LET text == TextOf(resp.env)
        secs == Sections(text)
    IN  /\ \A k \in 1..(Len(secs) - 1) : LexLess(GroupName(secs[k]), GroupName(secs[k + 1]))
        /\ \A k, m \in 1..Len(secs) : (GroupName(secs[k]) = GroupName(secs[m])) => k = m
        /\ \A k \in 1..Len(secs) :
             LET files == BulletsOf(secs[k])
             IN  /\ files # <<>>
                 /\ \A j \in 1..Len(files) : \E i \in 1..Len(objects) : Stripped(i) = files[j]
                 /\ \A j \in 1..(Len(files) - 1) : ListedAt(files[j]) < ListedAt(files[j + 1])
        /\ LET all == BulletsOf(text)
           IN  /\ Len(all) = Len(objects)
               /\ \A i \in 1..Len(objects) : \E j \in 1..Len(all) : all[j] = Stripped(i)
        /\ entry = "lambda" => Len(secs) >= 1
        /\ entry = "http" => BulletsOf(text) = [i \in 1..Len(objects) |-> Stripped(i)]
C19_Witness ==
  /\ ListFound
  /\ entry = "lambda"
  /\ Stripped(1) = <<"A">>
  /\ Len(Sections(TextOf(resp.env))) = 2
  /\ GroupName(Sections(TextOf(resp.env))[1]) = <<"B">>
  /\ GroupName(Sections(TextOf(resp.env))[2]) = RootGroup
  /\ BulletsOf(Sections(TextOf(resp.env))[1]) = << <<"B", "/", "a">>, <<"B", "/", "c">> >>
  /\ BulletsOf(Sections(TextOf(resp.env))[2]) = << <<"A">>, <<"R", "o", "o", "t", "/", "a">> >>

\* ----------------------------------------------- claim on repeated calls
\* the request being served repeats the earlier one that was kept: same entry
\* point, same tool call, same answers of the collaborators, and a handler ran
Repeated ==
  /\ Done
  /\ earlier.point = entry
  /\ earlier.call = call
  /\ earlier.world = world
  /\ invoked # <<>>

OperationOf(name) ==
  CASE name = SearchTool -> "retrieve"
    [] name = ReadTool -> "get"
    [] name = ListTool -> "list"
    [] OTHER -> "none"

\* the handler has the arguments it reads before calling its collaborator:
\* search destructures the arguments object, read calls replace on file_path
HasItsArguments ==
  CASE ret.by = SearchTool -> call.args.present
    [] ret.by = ReadTool -> call.args.present /\ call.args.hasPath
    [] OTHER -> TRUE

\* C21 (as claimed): every handler invocation issues exactly one collaborator
\* operation, of its own kind, before it responds.
C21_ExactlyOneOperation ==
  (Done /\ invoked # <<>>)
    => (Len(ret.ops) = 1 /\ ret.ops[1].op = OperationOf(ret.by))

\* C21 (amended): every handler invocation issues at most one collaborator
\* operation, and only of its own kind (retrieve for search, get for read,
\* list for list): exactly one whenever the handler has the arguments it
\* reads, also when that operation fails (no retry) and when the listing is
\* not empty (no follow-up call), and none when the arguments object (search,
\* read) or file_path (read) is missing; a request that runs no handler issues
\* no operation.
C21_AtMostOneOperation ==
  Done =>
    /\ invoked = <<>> => ret.ops = <<>>
    /\ invoked # <<>> =>
         /\ Len(ret.ops) <= 1
         /\ \A i \in 1..Len(ret.ops) : ret.ops[i].op = OperationOf(ret.by)
         /\ HasItsArguments => Len(ret.ops) = 1
         /\ ~HasItsArguments => ret.ops = <<>>
C21_Witness ==
  /\ Done
  /\ invoked = <<ListTool>>
  /\ world.fault # NoThrow
  /\ EndedInError
  /\ ret.ops = <<ListOp(NS)>>

\* ------------------------------------------- C22, C23: requests in flight
\* the response request i gets when it is the only request
Alone(i) == HttpPostMcp("json", flight[i].call, objects, Calm, "toolError", "ok").resp

\* request i is over for its client without a failure of its own transport:
\* its callback's result was sent, or connect refused it
Settled(i) ==
  \/ flight[i].pc = "sent"
  \/ flight[i].pc = "closed" /\ flight[i].threw = "no"
  \/ flight[i].threw = "connect"

C23_AtMostOneResponse ==
  \A i \in Reqs :
    /\ flight[i].writes <= 1
    /\ flight[i].threw \in {"connect", "before"} =>
         /\ flight[i].writes = 1
         /\ flight[i].body.status = 500
         /\ flight[i].body.shape = "rpcError"
         /\ flight[i].body.code = -32603
         /\ flight[i].id = "null"
    /\ flight[i].threw = "after" =>
         /\ flight[i].writes = 1
         /\ flight[i].body = TransportRefusal
C23_Witness ==
  \E i, j \in Reqs :
    /\ flight[i].threw = "before"
    /\ flight[i].body.status = 500
    /\ flight[i].body.code = InternalErrorCode
    /\ flight[j].threw = "after"
    /\ flight[j].writes = 1

\* --------------------------------------------------- C24..C27: ingestion
\* uploadToS3 has been called
UploadCalled == upload.state # "none"

\* the key the put of file i writes
KeyOf(i) == UploadKey(DOCS_PREFIX, markdownFiles[i])
HasObject(key) == \E k \in 1..Len(objects) : objects[k].key = key

\* C24: uploadToS3 starts a put for every file; it resolves only when every
\* put has succeeded; as soon as a put fails it rejects, with the failure of
\* the first put that failed; a put that has stored its file is not undone
\* and a put still under way is not cancelled by the failure of another, so a
\* rejected upload leaves some of the files stored and others not.
C24_UploadAllOrReject ==
  UploadCalled =>
    /\ Len(puts) = Len(markdownFiles)
    /\ \A i \in 1..Len(puts) :
         /\ puts[i] \in {"pending", "stored", "failed"}
         /\ puts[i] = "stored" => HasObject(KeyOf(i))
         /\ (puts[i] = "pending" /\ exitCode = "running" /\ entry = "none")
              => ENABLED PutSettles(i)
    /\ upload.state = "resolved" => \A i \in 1..Len(puts) : puts[i] = "stored"
    /\ (\E i \in 1..Len(puts) : puts[i] = "failed") <=> upload.state = "rejected"
    /\ upload.state = "rejected" =>
         /\ upload.error = failure
         /\ upload.error.step = "put"
         /\ puts[upload.error.of] = "failed"
C24_Witness ==
  /\ upload.state = "rejected"
  /\ Len(puts) = 2
  /\ \E i, j \in 1..Len(puts) : puts[i] = "failed" /\ puts[j] = "stored" /\ HasObject(KeyOf(j))

\* the files of the first n found that pandoc converted, as MarkdownFiles
RECURSIVE ConvertedOf(_)
ConvertedOf(n) ==
  IF n = 0 THEN <<>>
  ELSE ConvertedOf(n - 1) \o (IF pandoc[n] THEN <<MarkdownFile(rstFiles[n])>> ELSE <<>>)

\* convertRstToMarkdown has returned
ConvertReturned == ipc \in {"await", "complete"} \/ (ipc = "exited" /\ UploadCalled)

\* C25: convertRstToMarkdown goes through the files one at a time; a file
\* whose conversion fails is skipped and the files after it are still
\* converted; the list it returns holds exactly the converted files, in the
\* order the files were found; no failing file makes the function fail.
C25_FailedFilesSkipped ==
  /\ Len(pandoc) = cursor
  /\ cursor <= Len(rstFiles)
  /\ markdownFiles = ConvertedOf(cursor)
  /\ (ipc = "convert" /\ cursor < Len(rstFiles)) => ENABLED ConvertFile
  /\ ConvertReturned =>
       /\ cursor = Len(rstFiles)
       /\ \A i \in 1..Len(markdownFiles) :
            markdownFiles[i].relativePath[Len(markdownFiles[i].relativePath)] = ".md"
  /\ (\E i \in 1..Len(pandoc) : ~pandoc[i]) =>
       (failure.step \notin {"glob", "Pandoc is required"} /\ (ipc = "exited" => UploadCalled))
C25_Witness ==
  /\ ConvertReturned
  /\ pandoc = <<FALSE, TRUE>>
  /\ markdownFiles = <<MarkdownFile(rstFiles[2])>>

\* the position of main() is within step n or later (1 clone, 2 convert,
\* 3 upload, 4 completion)
StepReached ==
  CASE ipc \in {"start", "clone", "sparse", "cleanup"} -> 1
    [] ipc \in {"glob", "version", "convert"} -> 2
    [] ipc = "await" -> 3
    [] ipc = "complete" -> 4
    [] OTHER -> IF UploadCalled THEN 3 ELSE IF failure.step \in {"glob", "Pandoc is required"}
                THEN 2 ELSE 1

\* the step a failure belongs to
StepOf(f) ==
  CASE f.step \in {"mkdtemp", "clone", "sparse-checkout", "rm"} -> 1
    [] f.step \in {"glob", "Pandoc is required"} -> 2
    [] f.step = "put" -> 3
    [] OTHER -> 0

C26_Order ==
  /\ StepReached >= 2 => tempDir = "present"
  /\ StepReached < 2 => (rstFiles = <<>> /\ pandoc = <<>> /\ markdownFiles = <<>>)
  /\ StepReached < 3 => (upload.state = "none" /\ puts = <<>>)
  /\ StepReached >= 3 => cursor = Len(rstFiles)
  /\ StepReached = 4 => upload.state = "resolved"
  /\ failure # NoFault => StepReached = StepOf(failure)
  /\ printed <=> ipc = "complete"
  /\ printed => (upload.state = "resolved" /\ failure = NoFault /\ exitCode = "0")
  /\ exitCode = "1" <=> ipc = "exited"
  /\ ipc = "exited" => (failure # NoFault /\ thrown # NoFault)

\* C26: main() runs clone, then convert, then upload, each only after the
\* step before it succeeded; once a step has failed no later step starts and
\* the process exits with code 1; the completion message is printed only
\* after the upload succeeded.
C26_StepsInOrderExitOnFailure ==
  /\ []C26_Order
  /\ (failure # NoFault) ~> (exitCode = "1")
  /\ [][(failure # NoFault /\ exitCode = "running") => (StepReached' = StepReached)]_vars
C26_Witness ==
  /\ exitCode = "1"
  /\ failure.step = "Pandoc is required"
  /\ tempDir = "present"
  /\ rstFiles # <<>>
  /\ upload.state = "none"
  /\ ~printed

\* cloneDocs has ended
CloneFailed == failure.step \in {"clone", "sparse-checkout"} /\ ipc = "exited"

\* C27 (as claimed): whenever the clone or the sparse-checkout fails,
\* cloneDocs removes the directory it made and rethrows that failure; when
\* both succeed the directory stays.
C27_RemovesAndRethrows ==
  /\ CloneFailed => (tempDir = "removed" /\ thrown = failure)
  /\ StepReached >= 2 => tempDir = "present"

\* C27 (amended): whenever the clone or the sparse-checkout fails, cloneDocs
\* tries to remove the directory it made: when the removal succeeds the
\* directory is gone and the original failure is rethrown; when the removal
\* itself fails the directory stays and the removal's failure is thrown in
\* place of the original one.  When both steps succeed the directory stays
\* and the conversion goes on under it.
C27_RemovesOrThrowsRemovalFailure ==
  /\ ipc = "cleanup" => (tempDir = "present" /\ failure.step \in {"clone", "sparse-checkout"})
  /\ CloneFailed =>
       \/ tempDir = "removed" /\ thrown = failure
       \/ tempDir = "present" /\ thrown = Fault("rm", 0)
  /\ tempDir = "removed" => CloneFailed
  /\ StepReached >= 2 => tempDir = "present"
  /\ failure.step = "mkdtemp" => (tempDir = "none" /\ thrown = failure)
C27_Witness ==
  /\ CloneFailed
  /\ failure.step = "sparse-checkout"
  /\ tempDir = "removed"
  /\ thrown = failure

\* --------------------------------------------------- C28, C29: list output
\* list answered with a report of a non-empty listing
ListReported == ListFound /\ resp.shape = "envelope" /\ resp.env.isError = "absent"

\* how many bullets of a text carry the path
BulletCount(text, path) ==
  Cardinality({j \in 1..Len(BulletsOf(text)) : BulletsOf(text)[j] = path})

HasSlash(p) == \E i \in 1..Len(p) : p[i] = "/"

\* two relative paths have the same containing directory: both lie at the
\* root, or both lie in the directory named by the same segments
SameDirectory(p, q) ==
  IF ~HasSlash(p) \/ ~HasSlash(q) THEN ~HasSlash(p) /\ ~HasSlash(q)
  ELSE \E n \in 1..Len(p) :
         /\ n <= Len(q)
         /\ p[n] = "/" /\ q[n] = "/"
         /\ \A i \in (n + 1)..Len(p) : p[i] # "/"
         /\ \A i \in (n + 1)..Len(q) : q[i] # "/"
         /\ SubSeq(p, 1, n - 1) = SubSeq(q, 1, n - 1)

\* C29: in a list report two files stand in the same group only if they have
\* the same containing directory; a file at the root never shares a group
\* with a file inside a directory, whatever that directory is called.
C29_GroupMatesShareDirectory ==
  ListReported =>
    LET secs == Sections(TextOf(resp.env))
    IN  \A k \in 1..Len(secs) :
          \A a, b \in 1..Len(BulletsOf(secs[k])) :
            SameDirectory(BulletsOf(secs[k])[a], BulletsOf(secs[k])[b])

\* ------------------------------------------ C30: ingestion and serving
\* the put of file i has stored it
Uploaded(i) == i \in 1..Len(puts) /\ puts[i] = "stored"

\* the key read asks the object store for when it is given the path
ReadKey(path) ==
  HandleReadTool(Args(TRUE, FALSE, "", FALSE, 0, TRUE, path), objects, NoThrow).ops[1].key

\* C30: ingestion and serving agree on keys: for every file the ingestion run
\* has uploaded, with relative path r, a read of r asks for exactly the key
\* the upload wrote (DOCS_PREFIX followed by r) and returns the uploaded
\* content, and a list writes the file as exactly r; every path a list shows,
\* passed to read, asks for the key of the object it was listed for.
C30_IngestionAndServingAgreeOnKeys ==
  Done =>
    /\ \A i \in 1..Len(puts) :
         Uploaded(i) =>
           LET r == markdownFiles[i].relativePath
           IN  /\ KeyOf(i) = <<DOCS_PREFIX>> \o r
               /\ (invoked = <<ReadTool>> /\ call.args.path = r) =>
                    /\ ret.ops = <<GetOp(KeyOf(i))>>
                    /\ HasObject(KeyOf(i))
                    /\ resp.shape = "envelope"
                    /\ resp.env.isError = "absent"
                    /\ Mentions(TextOf(resp.env), markdownFiles[i].content)
               /\ invoked = <<ListTool>> =>
                    /\ resp.shape = "envelope"
                    /\ resp.env.isError = "absent"
                    /\ BulletCount(TextOf(resp.env), r) = 1
    /\ (invoked = <<ListTool>> /\ resp.shape = "envelope" /\ resp.env.isError = "absent"
          /\ objects # <<>>) =>
         LET shown == BulletsOf(TextOf(resp.env))
         IN  \A j \in 1..Len(shown) :
               \E k \in 1..Len(objects) :
                 objects[k].key = ReadKey(shown[j]) /\ Stripped(k) = shown[j]

====
